---------------------------- MODULE Spec2Model ----------------------------
(***************************************************************************)
(* Weather dashboard: the volatility score (VolatilityIndicator), the      *)
(* DateRangePicker and the pages that consume them (Dashboard, Analytics). *)
(*                                                                         *)
(* Instants are pairs [day, ms]: the UTC day number since 1970-01-01 and   *)
(* the millisecond within that UTC day.  A local time zone is a fixed      *)
(* offset in minutes east of UTC (no daylight saving).  Calendar dates are *)
(* records [y, m, d].  A handler runs to completion at one instant: every  *)
(* `new Date()` of one run reads the same value of the clock.              *)
(***************************************************************************)
EXTENDS Integers, Sequences, FiniteSets, TLC

VARIABLES
    page,           \* the route that is open: "dashboard" or "analytics"
    clock,          \* the wall clock read by `new Date()`
    tz,             \* local time-zone offset, minutes east of UTC
    startDate,      \* DateRangePicker state
    endDate,        \* DateRangePicker state
    rangePreset,    \* DateRangePicker state
    effectPending,  \* DateRangePicker: the mount effect has not run yet
    lastEvent,      \* the picker event handled last (history)
    storeReadings,  \* the store's weather_readings rows, oldest first
    storeLocations, \* the store's locations rows (their ids)
    nextLocId,      \* the store: the id the next locations row gets
    dateRange,      \* Dashboard state, set by handleDateRangeChange
    locations,      \* Dashboard state
    locReq,         \* Dashboard: "idle", "pending" or "done" (fetchLocations)
    weatherReadings,\* Dashboard state
    volatility,     \* Dashboard state
    isLoading,      \* Dashboard state
    error,          \* Dashboard state
    inflight,       \* Dashboard: the weather queries awaiting their response
    issued,         \* Dashboard: the number of weather queries issued so far
    dashMetrics,    \* <<>> or the argument of the Dashboard's last score call (history)
    anaWeatherData, \* Analytics state (weatherData)
    anaIsLoading,   \* Analytics state (isLoading)
    anaTimeRange,   \* Analytics state (timeRange)
    anaMounted,     \* Analytics: the mount effect has run
    anaInflight,    \* Analytics: the queries awaiting their response
    volIn,          \* the metrics object handed to calculateWeatherVolatility
    volOut,         \* <<>> before the call, <<result>> after it
    heap,           \* the live Date and { start, end } objects, by identity
    startRef,       \* DateRangePicker: the Date object held in startDate
    endRef,         \* DateRangePicker: the Date object held in endDate
    rangeRef,       \* the page: the { start, end } object held in dateRange
    moved,          \* the new identity of each object the last handler kept
    selectedLocation, \* WeatherData state: <<>> for 'all', or <<a location id>>
    dataRangeDays,  \* WeatherData: the option the 'Data Range' select shows
    newLocation,    \* Locations state: the form's fields
    isSubmitting,   \* Locations state
    insertError,    \* Locations state
    requests,       \* Locations: the store requests awaiting their response
    lastAlert,      \* the text of the last alert() shown, "" when none was
    session,        \* the role of the browser's store client
    isDarkMode,     \* App state
    rootDark,       \* document.documentElement has the class 'dark'
    savedTheme,     \* localStorage 'theme': "null", "dark" or "light"
    prefersDark,    \* matchMedia('(prefers-color-scheme: dark)').matches
    appMounted,     \* App: the mount effect has run
    toggled,        \* toggleDarkMode has run since the load (history)
    scriptPc,       \* populate script: the statement it is at
    locationData,   \* populate script: the ids the location insert returned
    scriptReadings, \* populate script: its weatherReadings array
    batchStart,     \* populate script: the loop variable i
    scriptLog,      \* the store statements the script has run (history)
    isVisible,      \* Tooltip state
    timeoutRef,     \* Tooltip: timeoutRef.current, NoTimer or a timer id
    timers,         \* the browser's pending timers: the time left, by id
    timerSeq,       \* the id the next setTimeout returns
    tipMounted,     \* Tooltip: mounted
    pointerOver,    \* the pointer is over the tooltip's child
    focused,        \* the tooltip's child has the focus
    tipThrown       \* a timer callback of the Tooltip has thrown (history)

pickerVars == <<startDate, endDate, rangePreset, effectPending, lastEvent>>
volVars == <<volIn, volOut>>
storeVars == <<storeReadings, storeLocations, nextLocId>>
dashVars == <<dateRange, locations, locReq, weatherReadings, volatility,
              isLoading, error, inflight, issued, dashMetrics>>
anaVars == <<anaWeatherData, anaIsLoading, anaTimeRange, anaMounted, anaInflight>>
envVars == <<page, clock, tz>>
refVars == <<heap, startRef, endRef, rangeRef, moved>>
wdVars == <<selectedLocation, dataRangeDays>>
lpVars == <<newLocation, isSubmitting, insertError, requests, lastAlert, session>>
appVars == <<isDarkMode, rootDark, savedTheme, prefersDark, appMounted, toggled>>
otherVars == <<wdVars, lpVars, appVars>>
scriptVars == <<scriptPc, locationData, scriptReadings, batchStart, scriptLog>>
tipVars == <<isVisible, timeoutRef, timers, timerSeq, tipMounted, pointerOver,
             focused, tipThrown>>
extVars == <<scriptVars, tipVars>>
vars == <<envVars, pickerVars, storeVars, dashVars, anaVars, volVars, refVars,
          otherVars, extVars>>

-----------------------------------------------------------------------------
(* Bounds of the model *)

\* index of the last clock day the model visits
MaxClockIdx == 2
\* index of the last calendar date a user can type into a date input
MaxInputIdx == 2
\* most weather queries a page issues in one session
MaxQueries == 3
\* most rows of the weather_readings table when its columns vary
MaxRows == 3
\* most rows of the locations table
MaxLocations == 2
\* the longest text typed into a number input
MaxChars == 4
\* the locations the populate script inserts (three in the script)
MaxSampleLocations == 2
\* the readings the populate script builds per location (7 * 24 in the script)
MaxSampleHours == 2
\* the rows of one batch of the populate script (500 in the script)
MaxBatch == 3
\* the timers a tooltip sets in one session
MaxTimers == 4
\* the tooltip's delay, in steps of the clock
DelaySteps == 2
\* longest sample array of the metric under study
MaxLen == 3
\* sample values are the multiples of ten from -10 to 10 * MaxSample
MaxSample == 2

-----------------------------------------------------------------------------
(* Time: the Date built-ins the picker uses *)

MsPerDay == 24 * 60 * 60 * 1000
EndOfDayMs == ((23 * 60 + 59) * 60 + 59) * 1000 + 999

Instant(day, ms) == [day |-> day, ms |-> ms]

\* a <= b on instants
Leq(a, b) == a.day < b.day \/ (a.day = b.day /\ a.ms <= b.ms)

\* days since 1970-01-01 of the proleptic Gregorian date y-m-d (MakeDay)
DaysFromCivil(y, m, d) ==
    LET yy  == IF m <= 2 THEN y - 1 ELSE y
        era == yy \div 400
        yoe == yy - era * 400
        mp  == IF m > 2 THEN m - 3 ELSE m + 9
        doy == (153 * mp + 2) \div 5 + d - 1
        doe == yoe * 365 + yoe \div 4 - yoe \div 100 + doy
    IN  era * 146097 + doe - 719468

\* the Gregorian date of a day number (YearFromTime, MonthFromTime, DateFromTime)
CivilFromDays(z0) ==
    LET z   == z0 + 719468
        era == z \div 146097
        doe == z - era * 146097
        yoe == (doe - doe \div 1460 + doe \div 36524 - doe \div 146096) \div 365
        doy == doe - (365 * yoe + yoe \div 4 - yoe \div 100)
        mp  == (5 * doy + 2) \div 153
        d   == doy - (153 * mp + 2) \div 5 + 1
        m   == IF mp < 10 THEN mp + 3 ELSE mp - 9
        y   == yoe + era * 400 + (IF m <= 2 THEN 1 ELSE 0)
    IN  [y |-> y, m |-> m, d |-> d]

\* the local day number and local millisecond of day of instant t
LocalDay(t, off) == t.day + ((t.ms + off * 60000) \div MsPerDay)
LocalMs(t, off) == (t.ms + off * 60000) % MsPerDay

\* the instant whose local day number and local time of day are given
FromLocal(ld, lms, off) ==
    LET u == lms - off * 60000
    IN  Instant(ld + (u \div MsPerDay), u % MsPerDay)

\* Date.prototype.getDate / getFullYear: local calendar fields
getDate(t, off) == CivilFromDays(LocalDay(t, off)).d
getFullYear(t, off) == CivilFromDays(LocalDay(t, off)).y

\* Date.prototype.setHours(h, m, s, ms): local time of day replaced, local day kept
setHours(t, off, lms) == FromLocal(LocalDay(t, off), lms, off)

\* Date.prototype.setDate(n): day n of t's local month, n < 1 rolling back
\* into the previous months; local time of day kept
setDate(t, off, n) ==
    LET c == CivilFromDays(LocalDay(t, off))
    IN  FromLocal(DaysFromCivil(c.y, c.m, 1) + n - 1, LocalMs(t, off), off)

\* new Date(year, monthIndex, day): local midnight of that date
NewLocalDate(y, m, d, off) == FromLocal(DaysFromCivil(y, m, d), 0, off)

\* new Date("YYYY-MM-DD"): the date-only form is parsed as UTC midnight
ParseDateOnly(s) == Instant(DaysFromCivil(s.y, s.m, s.d), 0)

\* date.toISOString().split('T')[0]: the UTC calendar date
formatDateForInput(t) == CivilFromDays(t.day)

-----------------------------------------------------------------------------
(* VolatilityIndicator: calculateVolatility and calculateWeatherVolatility   *)
(*                                                                           *)
(* Samples are integers.  The mean and the variance are kept exact, as the   *)
(* rational num / den; Math.sqrt rounds down to a fixed-point number with    *)
(* Scale units per 1.  A standard deviation is an integer count of 1/Scale,  *)
(* a weight is a count of tenths and a score a count of 1/(10 * Scale).      *)
(* A JavaScript number that may be NaN is the record [nan, v].               *)

Scale == 10 * 10

Num(v) == [nan |-> FALSE, v |-> v]
NaN == [nan |-> TRUE, v |-> 0]

\* an optional property that is not set
Absent == [present |-> FALSE, samples |-> <<>>]
Series(s) == [present |-> TRUE, samples |-> s]

Metrics == {"temperature", "humidity", "pressure", "windSpeed"}

RECURSIVE SumSeq(_)
\* readings.reduce((sum, val) => sum + val, 0)
SumSeq(s) == IF s = <<>> THEN 0 ELSE s[1] + SumSeq(Tail(s))

RECURSIVE SumSqDev(_, _, _)
\* readings.reduce((sum, val) => sum + Math.pow(val - mean, 2), 0) with
\* mean = total / n: the sum of (n * val - total)^2, in units of 1 / n^2
SumSqDev(s, n, total) ==
    IF s = <<>> THEN 0
    ELSE (n * s[1] - total) * (n * s[1] - total) + SumSqDev(Tail(s), n, total)

RECURSIVE SqrtSearch(_, _, _)
\* the largest r in lo..hi with r * r <= q
SqrtSearch(lo, hi, q) ==
    IF lo >= hi THEN lo
    ELSE LET mid == (lo + hi + 1) \div 2
         IN  IF mid * mid <= q THEN SqrtSearch(mid, hi, q)
             ELSE SqrtSearch(lo, mid - 1, q)

\* Math.sqrt(num / den) in units of 1 / Scale, rounded down
FixSqrt(num, den) ==
    LET q == (num * Scale * Scale) \div den
    IN  SqrtSearch(0, IF q < 46340 THEN q ELSE 46340, q)

\* the spread from the first reading to the last, which has a sign
calculateVolatilityDrift(readings) ==
    IF Len(readings) < 2 THEN 0
    ELSE (readings[Len(readings)] - readings[1]) * Scale

\* the deviations taken from the first reading instead of the mean
calculateVolatilityFromFirst(readings) ==
    IF Len(readings) < 2 THEN 0
    ELSE LET n == Len(readings)
         IN  FixSqrt(SumSqDev(readings, 1, readings[1]), n)

\* the sample standard deviation: the squared deviations divided by n - 1
calculateVolatilitySample(readings) ==
    IF Len(readings) < 2 THEN 0
    ELSE LET n == Len(readings)
             total == SumSeq(readings)
         IN  FixSqrt(SumSqDev(readings, n, total), n * n * (n - 1))

calculateVolatility(readings) ==
    IF Len(readings) < 2 THEN 0
    ELSE LET n == Len(readings)
             total == SumSeq(readings)
         IN  FixSqrt(SumSqDev(readings, n, total), n * n * n)

\* const weights = { temperature: 0.4, humidity: 0.2, ... }, in tenths
weights == [temperature |-> 4, humidity |-> 2, pressure |-> 2, windSpeed |-> 2]

\* the entry one metric pushes onto `volatilities`, <<>> when it pushes none
Pushed(metrics, m) ==
    IF metrics[m].present /\ Len(metrics[m].samples) > 1
    THEN <<calculateVolatility(metrics[m].samples) * weights[m]>>
    ELSE <<>>

\* the array `volatilities` after the four if statements
Volatilities(metrics) ==
    Pushed(metrics, "temperature") \o Pushed(metrics, "humidity")
        \o Pushed(metrics, "pressure") \o Pushed(metrics, "windSpeed")

\* the mean of the pushed entries instead of their sum: 0 / 0 when none is pushed
calculateWeatherVolatilityMean(metrics) ==
    LET volatilities == Volatilities(metrics)
    IN  IF Len(volatilities) = 0 THEN NaN
        ELSE Num(SumSeq(volatilities) \div Len(volatilities))

calculateWeatherVolatility(metrics) ==
    LET volatilities == Volatilities(metrics)
    IN  IF Len(volatilities) > 0 THEN Num(SumSeq(volatilities)) ELSE Num(0)

-----------------------------------------------------------------------------
(* The inputs of the volatility function *)

SampleValues == {10 * k : k \in -1..MaxSample}

SeqsUpTo(S, n) == UNION {[1..k -> S] : k \in 0..n}

\* every value a metric property can take: unset, or an array of samples
AllSeries == {Absent} \cup {Series(s) : s \in SeqsUpTo(SampleValues, MaxLen)}

\* the values of the metrics that are not under study
FewSeries == {Absent, Series(<<>>), Series(<<10, 30>>)}

\* one metric ranges over AllSeries, the three others over FewSeries
VolInit ==
    /\ \E k \in Metrics, a \in AllSeries :
           \E f \in [Metrics \ {k} -> FewSeries] :
               volIn = [m \in Metrics |-> IF m = k THEN a ELSE f[m]]
    /\ volOut = <<>>

\* a caller evaluates calculateWeatherVolatility(volIn)
CallVolatility ==
    /\ volOut = <<>>
    /\ volOut' = <<calculateWeatherVolatility(volIn)>>
    /\ UNCHANGED <<volIn, envVars, pickerVars, storeVars, dashVars, anaVars,
                   refVars, otherVars, extVars>>


-----------------------------------------------------------------------------
(* The store: weather_readings joined to locations *)

\* a nullable column holds Null or <<value>>
Null == <<>>
Some(v) == <<v>>

Row(id, loc, at, t, h, p, w) ==
    [id |-> id, location_id |-> loc, recorded_at |-> at,
     temperature_c |-> t, humidity_percent |-> h,
     pressure_hpa |-> p, wind_speed_ms |-> w]

RECURSIVE Reverse(_)
Reverse(s) == IF s = <<>> THEN <<>> ELSE Append(Reverse(Tail(s)), s[1])

Take(s, n) == IF Len(s) <= n THEN s ELSE SubSeq(s, 1, n)

\* a range filter that accepts a row on either of its two bounds
RangeFilterEither(rows, locs, start, end) ==
    SelectSeq(rows, LAMBDA r :
        /\ \E i \in 1..Len(locs) : locs[i] = r.location_id
        /\ (Leq(start, r.recorded_at) \/ Leq(r.recorded_at, end)))

\* .select('..., locations!inner(...)').gte('recorded_at', start)
\* .lte('recorded_at', end): the rows of existing locations within both bounds
RangeFilter(rows, locs, start, end) ==
    SelectSeq(rows, LAMBDA r :
        /\ \E i \in 1..Len(locs) : locs[i] = r.location_id
        /\ Leq(start, r.recorded_at)
        /\ Leq(r.recorded_at, end))

\* the Dashboard's query: newest first, at most 500 rows
DashboardQuery(rows, locs, start, end) ==
    Take(Reverse(RangeFilter(rows, locs, start, end)), 500)

\* the role a statement runs under: the browser's client is "anon" or, once
\* signed in, "authenticated"; the populate script holds the service role key
Roles == {"anon", "authenticated", "service_role"}

\* a number as the exact fraction num / den, den > 0
Frac(num, den) == [nan |-> FALSE, num |-> num, den |-> den]
NotANumber == [nan |-> TRUE, num |-> 0, den |-> 1]

Abs(x) == IF x < 0 THEN -x ELSE x

\* CREATE POLICY ... FOR INSERT WITH CHECK (auth.uid() IS NOT NULL); the
\* service role bypasses row level security
MayInsert(role) == role \in {"authenticated", "service_role"}

\* row level security is enabled and no policy is FOR DELETE: only the
\* service role sees rows to delete
MayDelete(role) == role = "service_role"

\* the locations table takes the row: name VARCHAR(255) NOT NULL, latitude
\* DECIMAL(10, 8) NOT NULL (below 100 in size), longitude DECIMAL(11, 8) NOT
\* NULL (below 1000 in size)
LocationRowFits(data) ==
    /\ Len(data.name) <= 255
    /\ ~data.latitude.nan /\ Abs(data.latitude.num) < 100 * data.latitude.den
    /\ ~data.longitude.nan /\ Abs(data.longitude.num) < 1000 * data.longitude.den

\* INSERT INTO locations: the table after the statement
InsertLocation(locs, id) == Append(locs, id)

\* location_id REFERENCES locations(id), unique_location_time
ReadingRowFits(rows, locs, row) ==
    /\ \E k \in 1..Len(locs) : locs[k] = row.location_id
    /\ \A k \in 1..Len(rows) :
           ~(rows[k].location_id = row.location_id
                /\ rows[k].recorded_at = row.recorded_at)

RECURSIVE NextReadingId(_)
\* an id above those of the rows present
NextReadingId(rows) ==
    IF rows = <<>> THEN 1
    ELSE LET n == NextReadingId(Tail(rows))
         IN  IF rows[1].id + 1 > n THEN rows[1].id + 1 ELSE n

\* DELETE FROM locations WHERE id = ... : the locations left
DeleteLocation(locs, id) == SelectSeq(locs, LAMBDA l : l # id)

\* a delete that leaves the readings of the deleted location in their table
KeepReadings(rows, id) == rows

\* ON DELETE CASCADE: the readings left after the location id is deleted
CascadeReadings(rows, id) == SelectSeq(rows, LAMBDA r : r.location_id # id)

-----------------------------------------------------------------------------
(* Dashboard *)

NoError == "null"

Range(start, end) == [start |-> start, end |-> end]

RECURSIVE Column(_, _)
\* typedData.map(r => r[col])
Column(rows, col) ==
    IF rows = <<>> THEN <<>> ELSE <<rows[1][col]>> \o Column(Tail(rows), col)

RECURSIVE Values(_)
\* the values of the entries that are not null, in order
Values(col) ==
    IF col = <<>> THEN <<>>
    ELSE (IF col[1] = Null THEN <<>> ELSE <<col[1][1]>>) \o Values(Tail(col))

\* .filter((temp): temp is number => temp !== null && !isNaN(temp))
FilterNumbers(col) == Values(SelectSeq(col, LAMBDA x : x # Null))

\* the argument of calculateWeatherVolatility in fetchWeatherData, <<>> when
\* the function is not called
DashboardMetrics(typedData) ==
    LET temperatures == FilterNumbers(Column(typedData, "temperature_c"))
        humidities   == FilterNumbers(Column(typedData, "humidity_percent"))
        pressures    == FilterNumbers(Column(typedData, "pressure_hpa"))
        windSpeeds   == FilterNumbers(Column(typedData, "wind_speed_ms"))
        Opt(a)       == IF Len(a) > 1 THEN Series(a) ELSE Absent
    IN  IF Len(typedData) > 1 /\ Len(temperatures) > 1
        THEN <<[temperature |-> Series(temperatures),
                humidity    |-> Opt(humidities),
                pressure    |-> Opt(pressures),
                windSpeed   |-> Opt(windSpeeds)]>>
        ELSE <<>>

\* the value handed to setVolatility after a successful query
DashboardVolatility(typedData) ==
    LET args == DashboardMetrics(typedData)
    IN  IF args = <<>> THEN Num(0) ELSE calculateWeatherVolatility(args[1])

\* the value 'all' of WeatherData's location select
AllLocations == <<>>

\* the filters a page's fetchWeatherData puts into its query: the Dashboard
\* the range, WeatherData the range and the selected location
Request(range, sel) ==
    IF page = "weatherdata"
    THEN [start |-> range.start, end |-> range.end, location |-> sel]
    ELSE range

\* the effect on [dateRange, locations], run with the new state: a non-empty
\* location list starts fetchWeatherData, whose synchronous part sets
\* isLoading and error and issues the query with the range of that render
FetchEffect(range, locs) ==
    IF Len(locs) > 0
    THEN /\ isLoading' = TRUE
         /\ error' = NoError
         /\ inflight' = Append(inflight, Request(range, selectedLocation))
         /\ issued' = issued + 1
    ELSE UNCHANGED <<isLoading, error, inflight, issued>>

\* room for the query FetchEffect may issue
MayFetch == Len(locations) > 0 => issued < MaxQueries

\* handleDateRangeChange, followed by the effect it triggers
handleDateRangeChange(start, end) ==
    /\ dateRange' = Range(start, end)
    /\ FetchEffect(Range(start, end), locations)
    /\ UNCHANGED <<locations, weatherReadings, volatility, dashMetrics>>

\* fetchLocations: the response arrives with the store's rows
LocationsLoaded ==
    /\ locReq = "pending"
    /\ locReq' = "done"
    /\ locations' = storeLocations
    /\ FetchEffect(dateRange, storeLocations)
    /\ UNCHANGED <<dateRange, weatherReadings, volatility, dashMetrics,
                   envVars, pickerVars, storeVars, anaVars, volVars, refVars,
                   otherVars, extVars>>

\* fetchLocations: the request fails
LocationsFailed ==
    /\ page = "dashboard"
    /\ locReq = "pending"
    /\ locReq' = "done"
    /\ error' = "Failed to load locations"
    /\ UNCHANGED <<dateRange, locations, weatherReadings, volatility, isLoading,
                   inflight, issued, dashMetrics, envVars, pickerVars,
                   storeVars, anaVars, volVars, refVars,
                   otherVars, extVars>>

Remove(s, i) == SubSeq(s, 1, i - 1) \o SubSeq(s, i + 1, Len(s))

\* fetchWeatherData: query i is answered with its rows
WeatherLoaded(i) ==
    /\ page = "dashboard"
    /\ i \in 1..Len(inflight)
    /\ LET req  == inflight[i]
           data == DashboardQuery(storeReadings, storeLocations, req.start, req.end)
       IN  /\ weatherReadings' = data
           /\ volatility' = DashboardVolatility(data)
           /\ dashMetrics' = DashboardMetrics(data)
    /\ isLoading' = FALSE
    /\ inflight' = Remove(inflight, i)
    /\ UNCHANGED <<dateRange, locations, locReq, error, issued, envVars,
                   pickerVars, storeVars, anaVars, volVars, refVars,
                   otherVars, extVars>>

\* fetchWeatherData: query i fails
WeatherFailed(i) ==
    /\ page = "dashboard"
    /\ i \in 1..Len(inflight)
    /\ error' = "Failed to load weather data"
    /\ weatherReadings' = <<>>
    /\ volatility' = Num(0)
    /\ isLoading' = FALSE
    /\ inflight' = Remove(inflight, i)
    /\ UNCHANGED <<dateRange, locations, locReq, issued, dashMetrics, envVars,
                   pickerVars, storeVars, anaVars, volVars, refVars,
                   otherVars, extVars>>

-----------------------------------------------------------------------------
(* WeatherData: the state cells it shares with the Dashboard carry the same   *)
(* names; its picker and its handleDateRangeChange are the Dashboard's        *)

\* WeatherData's query: the range, the selected location, newest first, at
\* most 100 rows
WeatherDataQuery(rows, locs, req) ==
    Take(Reverse(SelectSeq(RangeFilter(rows, locs, req.start, req.end),
                           LAMBDA r : req.location = AllLocations
                                          \/ r.location_id = req.location[1])),
         100)

\* WeatherData.fetchLocations: the request fails, which is logged
WdLocationsFailed ==
    /\ page = "weatherdata"
    /\ locReq = "pending"
    /\ locReq' = "done"
    /\ UNCHANGED <<dateRange, locations, weatherReadings, volatility, isLoading,
                   error, inflight, issued, dashMetrics, envVars, pickerVars,
                   storeVars, anaVars, volVars, refVars, otherVars, extVars>>

\* WeatherData.fetchWeatherData: query i is answered with its rows
WdWeatherLoaded(i) ==
    /\ page = "weatherdata"
    /\ i \in 1..Len(inflight)
    /\ weatherReadings' = WeatherDataQuery(storeReadings, storeLocations, inflight[i])
    /\ isLoading' = FALSE
    /\ inflight' = Remove(inflight, i)
    /\ UNCHANGED <<dateRange, locations, locReq, volatility, error, issued,
                   dashMetrics, envVars, pickerVars, storeVars, anaVars, volVars,
                   refVars, otherVars, extVars>>

\* WeatherData.fetchWeatherData: query i fails
WdWeatherFailed(i) ==
    /\ page = "weatherdata"
    /\ i \in 1..Len(inflight)
    /\ error' = "Failed to load weather data"
    /\ weatherReadings' = <<>>
    /\ isLoading' = FALSE
    /\ inflight' = Remove(inflight, i)
    /\ UNCHANGED <<dateRange, locations, locReq, volatility, issued, dashMetrics,
                   envVars, pickerVars, storeVars, anaVars, volVars, refVars,
                   otherVars, extVars>>

\* the Refresh Data button: fetchWeatherData, whatever the locations are
RefreshData ==
    /\ page = "weatherdata"
    /\ ~effectPending
    /\ issued < MaxQueries
    /\ isLoading' = TRUE
    /\ error' = NoError
    /\ inflight' = Append(inflight, Request(dateRange, selectedLocation))
    /\ issued' = issued + 1
    /\ UNCHANGED <<dateRange, locations, locReq, weatherReadings, volatility,
                   dashMetrics, envVars, pickerVars, storeVars, anaVars, volVars,
                   refVars, otherVars, extVars>>

\* the location select changes to `sel`, followed by the effect on
\* [selectedLocation, dateRange, locations]
SelectLocation(sel) ==
    /\ page = "weatherdata"
    /\ ~effectPending
    /\ sel # selectedLocation
    /\ sel = AllLocations \/ \E k \in 1..Len(locations) : sel = <<locations[k]>>
    /\ MayFetch
    /\ selectedLocation' = sel
    /\ IF Len(locations) > 0
       THEN /\ isLoading' = TRUE
            /\ error' = NoError
            /\ inflight' = Append(inflight, Request(dateRange, sel))
            /\ issued' = issued + 1
       ELSE UNCHANGED <<isLoading, error, inflight, issued>>
    /\ UNCHANGED <<dataRangeDays, dateRange, locations, locReq, weatherReadings, volatility,
                   dashMetrics, envVars, pickerVars, storeVars, anaVars, volVars,
                   refVars, lpVars, appVars, extVars>>

\* the options of the 'Data Range' select
DataRangeOptions == {7, 30, 90, 365}

\* the 'Data Range' select changes to `days`: the page builds its own range
\* from the clock, without the picker; the effect on [selectedLocation,
\* dateRange, locations] follows.  The heap keeps following the objects the
\* picker made.
SelectDataRange(days) ==
    /\ page = "weatherdata"
    /\ ~effectPending
    /\ days # dataRangeDays
    /\ MayFetch
    /\ dataRangeDays' = days
    /\ LET end   == clock
           start == setDate(clock, tz, getDate(clock, tz) - days)
       IN  /\ dateRange' = Range(start, end)
           /\ FetchEffect(Range(start, end), locations)
    /\ UNCHANGED <<selectedLocation, locations, locReq, weatherReadings, volatility,
                   dashMetrics, envVars, pickerVars, storeVars, anaVars, volVars,
                   refVars, lpVars, appVars, extVars>>

-----------------------------------------------------------------------------
(* Locations: the list, the add-location form and the delete button.  The    *)
(* page keeps its list, its loading flag and its fetch error in the cells     *)
(* `locations`, `isLoading` and `error`.                                      *)

\* the add-location form as useState leaves it; a text is a sequence of
\* one-character strings
EmptyForm ==
    [name |-> <<>>, latitude |-> <<>>, longitude |-> <<>>, elevation |-> <<>>,
     timezone |-> "resolved"]

Digits == <<"0", "1", "2", "3", "4", "5", "6", "7", "8", "9">>

IsDigit(c) == \E k \in 1..10 : Digits[k] = c

DigitValue(c) == (CHOOSE k \in 1..10 : Digits[k] = c) - 1

RECURSIVE TakeDigits(_)
\* the longest prefix of s made of digits
TakeDigits(s) ==
    IF s # <<>> /\ IsDigit(s[1]) THEN <<s[1]>> \o TakeDigits(Tail(s)) ELSE <<>>

RECURSIVE Pow10(_)
Pow10(n) == IF n = 0 THEN 1 ELSE 10 * Pow10(n - 1)

RECURSIVE DigitsValue(_)
\* the number a sequence of digits writes
DigitsValue(d) ==
    IF d = <<>> THEN 0
    ELSE DigitsValue(SubSeq(d, 1, Len(d) - 1)) * 10 + DigitValue(d[Len(d)])

IsSpace(c) == c = " "

RECURSIVE TrimStart(_)
TrimStart(s) == IF s # <<>> /\ IsSpace(s[1]) THEN TrimStart(Tail(s)) ELSE s

\* String.prototype.trim
Trim(s) == Reverse(TrimStart(Reverse(TrimStart(s))))

\* parseFloat: white space, a sign, digits, a point and digits; the longest
\* prefix that is a number counts and what follows it is ignored
parseFloat(text) ==
    LET t    == TrimStart(text)
        neg  == t # <<>> /\ t[1] = "-"
        body == IF t # <<>> /\ t[1] \in {"-", "+"} THEN Tail(t) ELSE t
        int  == TakeDigits(body)
        rest == SubSeq(body, Len(int) + 1, Len(body))
        frac == IF rest # <<>> /\ rest[1] = "." THEN TakeDigits(Tail(rest)) ELSE <<>>
        num  == DigitsValue(int) * Pow10(Len(frac)) + DigitsValue(frac)
    IN  IF int = <<>> /\ frac = <<>> THEN NotANumber
        ELSE Frac(IF neg THEN -num ELSE num, Pow10(Len(frac)))

\* x < n and x > n for a number x and an integer n
Below(x, n) == x.num < n * x.den
Above(x, n) == x.num > n * x.den

NoMessage == ""

\* a validation that takes the longitude's bounds for the latitude
ValidationErrorWide(form) ==
    LET latitude  == parseFloat(form.latitude)
        longitude == parseFloat(form.longitude)
    IN  IF Trim(form.name) = <<>> THEN "Location name is required"
        ELSE IF latitude.nan \/ Below(latitude, -180) \/ Above(latitude, 180)
        THEN "Valid latitude is required (-90 to 90)"
        ELSE IF longitude.nan \/ Below(longitude, -180) \/ Above(longitude, 180)
        THEN "Valid longitude is required (-180 to 180)"
        ELSE NoMessage

\* the message of the Error that handleSubmit's validation throws, NoMessage
\* when it throws none
ValidationError(form) ==
    LET latitude  == parseFloat(form.latitude)
        longitude == parseFloat(form.longitude)
    IN  IF Trim(form.name) = <<>> THEN "Location name is required"
        ELSE IF latitude.nan \/ Below(latitude, -90) \/ Above(latitude, 90)
        THEN "Valid latitude is required (-90 to 90)"
        ELSE IF longitude.nan \/ Below(longitude, -180) \/ Above(longitude, 180)
        THEN "Valid longitude is required (-180 to 180)"
        ELSE NoMessage

\* locationData; the elevation field is empty, which gives null
LocationData(form) ==
    [name |-> Trim(form.name), latitude |-> parseFloat(form.latitude),
     longitude |-> parseFloat(form.longitude), elevation |-> Null,
     timezone |-> form.timezone]

NoData == [name |-> <<>>, latitude |-> NotANumber, longitude |-> NotANumber,
           elevation |-> Null, timezone |-> ""]

\* a request to the store that awaits its response: kind is "fetch", "insert"
\* or "delete"; `after` is "submit" for the fetch that handleSubmit awaits
Req(kind, after, id, data) == [kind |-> kind, after |-> after, id |-> id, data |-> data]

\* fetchLocations up to its await
fetchLocations(after, pending) ==
    /\ isLoading' = TRUE
    /\ error' = NoError
    /\ requests' = Append(pending, Req("fetch", after, 0, NoData))
    /\ issued' = issued + 1

\* the first commit of the Locations page: the effect calls fetchLocations
LocationsPageMount ==
    /\ page = "locations"
    /\ locReq = "idle"
    /\ locReq' = "done"
    /\ fetchLocations("none", requests)
    /\ UNCHANGED <<dateRange, locations, weatherReadings, volatility, inflight,
                   dashMetrics, newLocation, isSubmitting, insertError, lastAlert,
                   session, envVars, pickerVars, storeVars, anaVars, volVars,
                   refVars, wdVars, appVars, extVars>>

\* a handleSubmit without its finally block
AfterFetchKeepsSubmitting(req) ==
    IF req.after = "submit"
    THEN /\ lastAlert' = "Location added successfully!"
         /\ UNCHANGED isSubmitting
    ELSE UNCHANGED <<lastAlert, isSubmitting>>

\* what follows `await fetchLocations()` in handleSubmit: the alert and the
\* finally block
AfterFetch(req) ==
    IF req.after = "submit"
    THEN /\ lastAlert' = "Location added successfully!"
         /\ isSubmitting' = FALSE
    ELSE UNCHANGED <<lastAlert, isSubmitting>>

\* fetchLocations: request i is answered with the store's rows
LocationsPageLoaded(i) ==
    /\ page = "locations"
    /\ i \in 1..Len(requests)
    /\ requests[i].kind = "fetch"
    /\ locations' = storeLocations
    /\ isLoading' = FALSE
    /\ requests' = Remove(requests, i)
    /\ AfterFetch(requests[i])
    /\ UNCHANGED <<dateRange, locReq, weatherReadings, volatility, error, inflight,
                   issued, dashMetrics, newLocation, insertError, session, envVars,
                   pickerVars, storeVars, anaVars, volVars, refVars, wdVars,
                   appVars, extVars>>

\* fetchLocations: request i fails; the catch block sets the error
LocationsPageFailed(i) ==
    /\ page = "locations"
    /\ i \in 1..Len(requests)
    /\ requests[i].kind = "fetch"
    /\ error' = "Failed to fetch locations"
    /\ isLoading' = FALSE
    /\ requests' = Remove(requests, i)
    /\ AfterFetch(requests[i])
    /\ UNCHANGED <<dateRange, locations, locReq, weatherReadings, volatility,
                   inflight, issued, dashMetrics, newLocation, insertError, session,
                   envVars, pickerVars, storeVars, anaVars, volVars, refVars,
                   wdVars, appVars, extVars>>

\* the user types `text` into the name, latitude or longitude input
SetField(field, text) ==
    /\ page = "locations"
    /\ ~isSubmitting
    /\ newLocation[field] # text
    /\ newLocation' = [newLocation EXCEPT ![field] = text]
    /\ UNCHANGED <<isSubmitting, insertError, requests, lastAlert, session,
                   envVars, pickerVars, storeVars, dashVars, anaVars, volVars,
                   refVars, wdVars, appVars, extVars>>

\* handleSubmit up to its await: a validation error is caught at once, and
\* otherwise the insert is sent
handleSubmit ==
    /\ page = "locations"
    /\ ~isSubmitting
    /\ issued < MaxQueries
    /\ IF ValidationError(newLocation) # NoMessage
       THEN /\ insertError' = ValidationError(newLocation)
            /\ isSubmitting' = FALSE
            /\ UNCHANGED <<requests, issued>>
       ELSE /\ insertError' = NoError
            /\ isSubmitting' = TRUE
            /\ requests' = Append(requests,
                                  Req("insert", "none", 0, LocationData(newLocation)))
            /\ issued' = issued + 1
    /\ UNCHANGED <<dateRange, locations, locReq, weatherReadings, volatility,
                   isLoading, error, inflight, dashMetrics, newLocation, lastAlert,
                   session, envVars, pickerVars, storeVars, anaVars, volVars,
                   refVars, wdVars, appVars, extVars>>

\* handleSubmit: the store takes the row of insert i; the form is reset and
\* fetchLocations is awaited
InsertLoaded(i) ==
    /\ page = "locations"
    /\ i \in 1..Len(requests)
    /\ requests[i].kind = "insert"
    /\ MayInsert(session)
    /\ LocationRowFits(requests[i].data)
    /\ nextLocId <= MaxLocations
    /\ storeLocations' = InsertLocation(storeLocations, nextLocId)
    /\ nextLocId' = nextLocId + 1
    /\ newLocation' = EmptyForm
    /\ fetchLocations("submit", Remove(requests, i))
    /\ UNCHANGED <<dateRange, locations, locReq, weatherReadings, volatility,
                   inflight, dashMetrics, isSubmitting, insertError, lastAlert,
                   session, storeReadings, envVars, pickerVars, anaVars, volVars,
                   refVars, wdVars, appVars, extVars>>

\* handleSubmit: insert i fails (the store refuses the row, or the request
\* does not get through); the message shown is the error's or the fallback
InsertFailed(i) ==
    /\ page = "locations"
    /\ i \in 1..Len(requests)
    /\ requests[i].kind = "insert"
    /\ insertError' \in {"Failed to add location", "store error"}
    /\ isSubmitting' = FALSE
    /\ requests' = Remove(requests, i)
    /\ UNCHANGED <<newLocation, lastAlert, session, envVars, pickerVars, storeVars,
                   dashVars, anaVars, volVars, refVars, wdVars, appVars,
                   extVars>>

\* handleDelete, confirmed by the user, up to its await
handleDelete(id) ==
    /\ page = "locations"
    /\ \E k \in 1..Len(locations) : locations[k] = id
    /\ issued < MaxQueries
    /\ requests' = Append(requests, Req("delete", "none", id, NoData))
    /\ issued' = issued + 1
    /\ UNCHANGED <<dateRange, locations, locReq, weatherReadings, volatility,
                   isLoading, error, inflight, dashMetrics, newLocation,
                   isSubmitting, insertError, lastAlert, session, envVars,
                   pickerVars, storeVars, anaVars, volVars, refVars, wdVars,
                   appVars, extVars>>

\* handleDelete: the store answers delete i without an error, having deleted
\* the rows the session's role may delete; fetchLocations is started and the
\* success alert shown
DeleteLoaded(i) ==
    /\ page = "locations"
    /\ i \in 1..Len(requests)
    /\ requests[i].kind = "delete"
    /\ IF MayDelete(session)
       THEN /\ storeLocations' = DeleteLocation(storeLocations, requests[i].id)
            /\ storeReadings' = CascadeReadings(storeReadings, requests[i].id)
       ELSE UNCHANGED <<storeLocations, storeReadings>>
    /\ fetchLocations("none", Remove(requests, i))
    /\ lastAlert' = "Location deleted successfully!"
    /\ UNCHANGED <<dateRange, locations, locReq, weatherReadings, volatility,
                   inflight, dashMetrics, newLocation, isSubmitting, insertError,
                   session, nextLocId, envVars, pickerVars, anaVars, volVars,
                   refVars, wdVars, appVars, extVars>>

\* handleDelete: delete i fails
DeleteFailed(i) ==
    /\ page = "locations"
    /\ i \in 1..Len(requests)
    /\ requests[i].kind = "delete"
    /\ requests' = Remove(requests, i)
    /\ lastAlert' = "Failed to delete location. Please try again."
    /\ UNCHANGED <<newLocation, isSubmitting, insertError, session, envVars,
                   pickerVars, storeVars, dashVars, anaVars, volVars, refVars,
                   wdVars, appVars, extVars>>

-----------------------------------------------------------------------------
(* App: the dark mode *)

\* a mount effect that lets a dark system preference override a saved theme
AppMountPreferSystem ==
    /\ ~appMounted
    /\ appMounted' = TRUE
    /\ IF savedTheme = "dark" \/ prefersDark
       THEN isDarkMode' = TRUE /\ rootDark' = TRUE
       ELSE UNCHANGED <<isDarkMode, rootDark>>
    /\ UNCHANGED <<savedTheme, prefersDark, toggled, envVars, pickerVars, storeVars,
                   dashVars, anaVars, volVars, refVars, wdVars, lpVars,
                   extVars>>

\* the mount effect: the saved theme, or without one the system preference
AppMount ==
    /\ ~appMounted
    /\ appMounted' = TRUE
    /\ IF savedTheme = "dark" \/ (savedTheme = "null" /\ prefersDark)
       THEN isDarkMode' = TRUE /\ rootDark' = TRUE
       ELSE UNCHANGED <<isDarkMode, rootDark>>
    /\ UNCHANGED <<savedTheme, prefersDark, toggled, envVars, pickerVars, storeVars,
                   dashVars, anaVars, volVars, refVars, wdVars, lpVars,
                   extVars>>

toggleDarkMode ==
    /\ appMounted
    /\ LET newDarkMode == ~isDarkMode
       IN  /\ isDarkMode' = newDarkMode
           /\ rootDark' = newDarkMode
           /\ savedTheme' = IF newDarkMode THEN "dark" ELSE "light"
    /\ toggled' = TRUE
    /\ UNCHANGED <<prefersDark, appMounted, envVars, pickerVars, storeVars,
                   dashVars, anaVars, volVars, refVars, wdVars, lpVars,
                   extVars>>

-----------------------------------------------------------------------------
(* Statements of a session that holds the service role key *)

\* .from('locations').insert(...)
ServiceInsertLocation ==
    /\ nextLocId <= MaxLocations
    /\ storeLocations' = InsertLocation(storeLocations, nextLocId)
    /\ nextLocId' = nextLocId + 1
    /\ UNCHANGED <<storeReadings, envVars, pickerVars, dashVars, anaVars, volVars,
                   refVars, otherVars, extVars>>

\* .from('weather_readings').insert(...) of one row for location id `loc`,
\* recorded at `at`
ServiceInsertReading(loc, at) ==
    /\ Len(storeReadings) < MaxRows
    /\ LET row == Row(NextReadingId(storeReadings), loc, at, Some(20), Some(60), Null, Some(0))
       IN  /\ ReadingRowFits(storeReadings, storeLocations, row)
           /\ storeReadings' = Append(storeReadings, row)
    /\ UNCHANGED <<storeLocations, nextLocId, envVars, pickerVars, dashVars,
                   anaVars, volVars, refVars, otherVars, extVars>>

\* .from('locations').delete() of the row with id `loc`
ServiceDeleteLocation(loc) ==
    /\ \E k \in 1..Len(storeLocations) : storeLocations[k] = loc
    /\ MayDelete("service_role")
    /\ storeLocations' = DeleteLocation(storeLocations, loc)
    /\ storeReadings' = CascadeReadings(storeReadings, loc)
    /\ UNCHANGED <<nextLocId, envVars, pickerVars, dashVars, anaVars, volVars,
                   refVars, otherVars, extVars>>

-----------------------------------------------------------------------------
(* The populate script: clearExistingData and populateSimpleData             *)
(*                                                                           *)
(* The script holds the service role key.  A statement of the store client   *)
(* settles with its data or with an error object; it does not throw.         *)

\* an entry of the history: the statement, whether it succeeded, the ids of
\* the locations and the rows it carried
Stmt(op, ok, ids, rows) == [op |-> op, ok |-> ok, ids |-> ids, rows |-> rows]

\* readings.push({ location_id: location.id, recorded_at: ... }) for the
\* hours of one location; the k-th reading is of k - 1 days before the clock
ReadingsOf(loc) ==
    [k \in 1..MaxSampleHours |->
        Row(0, loc, Instant(clock.day - (k - 1), 0), Some(20), Some(60), Some(1013),
            Some(5))]

RECURSIVE Generate(_)
\* locationData.forEach(location => ...): the weatherReadings array
Generate(ids) ==
    IF ids = <<>> THEN <<>> ELSE ReadingsOf(ids[1]) \o Generate(Tail(ids))

\* weatherReadings.slice(i, i + batchSize)
Slice(s, i, n) ==
    SubSeq(s, i + 1, IF i + n < Len(s) THEN i + n ELSE Len(s))

RECURSIVE AppendRows(_, _)
\* INSERT of a batch: the table after the statement, each row with a new id
AppendRows(rows, batch) ==
    IF batch = <<>> THEN rows
    ELSE AppendRows(Append(rows, [batch[1] EXCEPT !.id = NextReadingId(rows)]),
                    Tail(batch))

RECURSIVE BatchFits(_, _, _)
\* every row of the batch can be inserted after the rows before it
BatchFits(rows, locs, batch) ==
    IF batch = <<>> THEN TRUE
    ELSE /\ ReadingRowFits(rows, locs, batch[1])
         /\ BatchFits(Append(rows, batch[1]), locs, Tail(batch))

\* the ids the store gives to n new locations
NewIds(n) == [k \in 1..n |-> nextLocId + k - 1]

\* await supabase.from('weather_readings').delete().neq('id', 0); its error
\* is not looked at
ScriptClearReadings(ok) ==
    /\ scriptPc = "clearReadings"
    /\ storeReadings' = IF ok THEN <<>> ELSE storeReadings
    /\ scriptPc' = "clearLocations"
    /\ scriptLog' = Append(scriptLog, Stmt("deleteReadings", ok, <<>>, <<>>))
    /\ UNCHANGED <<storeLocations, nextLocId, locationData, scriptReadings,
                   batchStart, tipVars, envVars, pickerVars, dashVars, anaVars,
                   volVars, refVars, otherVars>>

\* await supabase.from('locations').delete().neq('id', 0); its error is not
\* looked at
ScriptClearLocations(ok) ==
    /\ scriptPc = "clearLocations"
    /\ storeLocations' = IF ok THEN <<>> ELSE storeLocations
    /\ storeReadings' = IF ok THEN <<>> ELSE storeReadings
    /\ scriptPc' = "insertLocations"
    /\ scriptLog' = Append(scriptLog, Stmt("deleteLocations", ok, <<>>, <<>>))
    /\ UNCHANGED <<nextLocId, locationData, scriptReadings, batchStart, tipVars,
                   envVars, pickerVars, dashVars, anaVars, volVars, refVars,
                   otherVars>>

\* the insert of the sample locations; on an error the script returns, and
\* otherwise it builds the weatherReadings array from the rows returned
ScriptInsertLocations(ok) ==
    /\ scriptPc = "insertLocations"
    /\ IF ok
       THEN /\ storeLocations' = storeLocations \o NewIds(MaxSampleLocations)
            /\ nextLocId' = nextLocId + MaxSampleLocations
            /\ locationData' = NewIds(MaxSampleLocations)
            /\ scriptReadings' = Generate(NewIds(MaxSampleLocations))
            /\ scriptPc' = "insertBatch"
       ELSE /\ scriptPc' = "done"
            /\ UNCHANGED <<storeLocations, nextLocId, locationData, scriptReadings>>
    /\ scriptLog' = Append(scriptLog,
                           Stmt("insertLocations", ok,
                                IF ok THEN NewIds(MaxSampleLocations) ELSE <<>>, <<>>))
    /\ UNCHANGED <<storeReadings, batchStart, tipVars, envVars, pickerVars,
                   dashVars, anaVars, volVars, refVars, otherVars>>

\* a loop that goes on to the next batch after an error
ScriptInsertBatchGoOn(ok) ==
    /\ scriptPc = "insertBatch"
    /\ LET batch == Slice(scriptReadings, batchStart, MaxBatch)
       IN  /\ ok => BatchFits(storeReadings, storeLocations, batch)
           /\ storeReadings' = IF ok THEN AppendRows(storeReadings, batch)
                                     ELSE storeReadings
           /\ scriptLog' = Append(scriptLog, Stmt("insertBatch", ok, <<>>, batch))
    /\ batchStart' = batchStart + MaxBatch
    /\ scriptPc' = IF batchStart + MaxBatch < Len(scriptReadings)
                   THEN "insertBatch" ELSE "done"
    /\ UNCHANGED <<storeLocations, nextLocId, locationData, scriptReadings,
                   tipVars, envVars, pickerVars, dashVars, anaVars, volVars,
                   refVars, otherVars>>

\* one turn of the loop: the insert of the batch starting at i; on an error
\* the script returns, and otherwise i moves on by the batch size
ScriptInsertBatch(ok) ==
    /\ scriptPc = "insertBatch"
    /\ LET batch == Slice(scriptReadings, batchStart, MaxBatch)
       IN  /\ ok => BatchFits(storeReadings, storeLocations, batch)
           /\ storeReadings' = IF ok THEN AppendRows(storeReadings, batch)
                                     ELSE storeReadings
           /\ scriptLog' = Append(scriptLog, Stmt("insertBatch", ok, <<>>, batch))
    /\ batchStart' = IF ok THEN batchStart + MaxBatch ELSE batchStart
    /\ scriptPc' = IF ok /\ batchStart + MaxBatch < Len(scriptReadings)
                   THEN "insertBatch" ELSE "done"
    /\ UNCHANGED <<storeLocations, nextLocId, locationData, scriptReadings,
                   tipVars, envVars, pickerVars, dashVars, anaVars, volVars,
                   refVars, otherVars>>

-----------------------------------------------------------------------------
(* Tooltip *)

\* timeoutRef.current when it is null
NoTimer == 0

\* e.currentTarget read in the timer's callback: React sets the property to
\* the element for the time of the handler and back to null when the handler
\* returns
NoElement == "null"
currentTargetAfterDispatch == NoElement

\* clearTimeout(id): no timer, a timer that has fired or was cleared, or a
\* pending one
clearTimeout(pending, id) == [t \in DOMAIN pending \ {id} |-> pending[t]]

\* the Tooltip after its first render
TipIdle ==
    /\ isVisible = FALSE
    /\ timeoutRef = NoTimer
    /\ timers = <<>>
    /\ timerSeq = 1
    /\ tipMounted = TRUE
    /\ pointerOver = FALSE
    /\ focused = FALSE
    /\ tipThrown = FALSE

\* showTooltip: the timer the ref holds is cleared and a new one is set
showTooltip ==
    /\ timerSeq <= MaxTimers
    /\ LET cleared == IF timeoutRef # NoTimer THEN clearTimeout(timers, timeoutRef)
                                              ELSE timers
       IN  timers' = [t \in DOMAIN cleared \cup {timerSeq} |->
                         IF t = timerSeq THEN DelaySteps ELSE cleared[t]]
    /\ timeoutRef' = timerSeq
    /\ timerSeq' = timerSeq + 1
    /\ UNCHANGED <<isVisible, tipMounted, tipThrown>>

\* hideTooltip: the timer the ref holds is cleared, the ref set to null and
\* the tooltip hidden
hideTooltip ==
    /\ IF timeoutRef # NoTimer
       THEN timers' = clearTimeout(timers, timeoutRef) /\ timeoutRef' = NoTimer
       ELSE UNCHANGED <<timers, timeoutRef>>
    /\ isVisible' = FALSE
    /\ UNCHANGED <<timerSeq, tipMounted, tipThrown>>

\* what the Tooltip's actions leave alone
TipFrame ==
    UNCHANGED <<scriptVars, envVars, pickerVars, storeVars, dashVars, anaVars,
                volVars, refVars, otherVars>>

\* onMouseEnter
MouseEnter ==
    /\ tipMounted /\ ~pointerOver
    /\ pointerOver' = TRUE
    /\ showTooltip
    /\ UNCHANGED focused
    /\ TipFrame

\* onMouseLeave
MouseLeave ==
    /\ tipMounted /\ pointerOver
    /\ pointerOver' = FALSE
    /\ hideTooltip
    /\ UNCHANGED focused
    /\ TipFrame

\* onFocus
Focus ==
    /\ tipMounted /\ ~focused
    /\ focused' = TRUE
    /\ showTooltip
    /\ UNCHANGED pointerOver
    /\ TipFrame

\* onBlur
Blur ==
    /\ tipMounted /\ focused
    /\ focused' = FALSE
    /\ hideTooltip
    /\ UNCHANGED pointerOver
    /\ TipFrame

\* one step of the clock: no pending timer is due yet
Elapse ==
    /\ DOMAIN timers # {}
    /\ \A t \in DOMAIN timers : timers[t] > 0
    /\ timers' = [t \in DOMAIN timers |-> timers[t] - 1]
    /\ UNCHANGED <<isVisible, timeoutRef, timerSeq, tipMounted, pointerOver,
                   focused, tipThrown>>
    /\ TipFrame

\* a timer whose callback shows the tooltip although the event's
\* currentTarget is null
TimerFiresAnyway(id) ==
    /\ id \in DOMAIN timers
    /\ timers[id] = 0
    /\ timers' = clearTimeout(timers, id)
    /\ isVisible' = TRUE
    /\ UNCHANGED <<timeoutRef, timerSeq, tipMounted, pointerOver, focused, tipThrown>>
    /\ TipFrame

\* the delay of timer id has elapsed: its callback reads
\* e.currentTarget.getBoundingClientRect(), which throws a TypeError on null
\* before setCoords and setIsVisible(true) are reached
TimerFires(id) ==
    /\ id \in DOMAIN timers
    /\ timers[id] = 0
    /\ timers' = clearTimeout(timers, id)
    /\ IF currentTargetAfterDispatch = NoElement
       THEN tipThrown' = TRUE /\ UNCHANGED isVisible
       ELSE isVisible' = TRUE /\ UNCHANGED tipThrown
    /\ UNCHANGED <<timeoutRef, timerSeq, tipMounted, pointerOver, focused>>
    /\ TipFrame

\* the cleanup of the effect: the timer the ref holds is cleared
Unmount ==
    /\ tipMounted
    /\ tipMounted' = FALSE
    /\ timers' = IF timeoutRef # NoTimer THEN clearTimeout(timers, timeoutRef)
                                          ELSE timers
    /\ UNCHANGED <<isVisible, timeoutRef, timerSeq, pointerOver, focused, tipThrown>>
    /\ TipFrame

-----------------------------------------------------------------------------
(* Analytics *)

\* r.temperature_c || 0: null becomes 0
OrZero(x) == IF x = Null THEN 0 ELSE x[1]

RECURSIVE MapOrZero(_)
\* weatherData.map(r => r[col] || 0), applied to a column
MapOrZero(col) ==
    IF col = <<>> THEN <<>> ELSE <<OrZero(col[1])>> \o MapOrZero(Tail(col))

\* the argument of calculateWeatherVolatility in the render, <<>> when the
\* function is not called
AnalyticsMetrics(weatherData) ==
    IF Len(weatherData) > 0
    THEN <<[temperature |-> Series(MapOrZero(Column(weatherData, "temperature_c"))),
            humidity    |-> Series(MapOrZero(Column(weatherData, "humidity_percent"))),
            pressure    |-> Series(MapOrZero(Column(weatherData, "pressure_hpa"))),
            windSpeed   |-> Series(MapOrZero(Column(weatherData, "wind_speed_ms")))]>>
    ELSE <<>>

\* const volatility = ... in the render
AnalyticsVolatility(weatherData) ==
    LET args == AnalyticsMetrics(weatherData)
    IN  IF args = <<>> THEN Num(0) ELSE calculateWeatherVolatility(args[1])

TimeRanges == {"week", "month", "year"}

RangeDays(r) == CASE r = "week" -> 7 [] r = "month" -> 30 [] r = "year" -> 365

\* fetchAnalyticsData up to its await: the query runs from the current
\* instant moved back by the days of timeRange to the current instant
fetchAnalyticsData(r) ==
    /\ anaIsLoading' = TRUE
    /\ anaInflight' = Append(anaInflight,
            Range(setDate(clock, tz, getDate(clock, tz) - RangeDays(r)), clock))
    /\ issued' = issued + 1

\* the first commit of the Analytics page: the effect on [timeRange]
AnalyticsMount ==
    /\ page = "analytics"
    /\ ~anaMounted
    /\ anaMounted' = TRUE
    /\ fetchAnalyticsData(anaTimeRange)
    /\ UNCHANGED <<anaWeatherData, anaTimeRange, envVars, pickerVars, storeVars,
                   dateRange, locations, locReq, weatherReadings, volatility,
                   isLoading, error, inflight, dashMetrics, volVars, refVars,
                   otherVars, extVars>>

\* a click on a time-range button that changes timeRange
SetTimeRange(r) ==
    /\ anaMounted
    /\ r # anaTimeRange
    /\ issued < MaxQueries
    /\ anaTimeRange' = r
    /\ fetchAnalyticsData(r)
    /\ UNCHANGED <<anaWeatherData, anaMounted, envVars, pickerVars, storeVars,
                   dateRange, locations, locReq, weatherReadings, volatility,
                   isLoading, error, inflight, dashMetrics, volVars, refVars,
                   otherVars, extVars>>

\* fetchAnalyticsData: query i is answered with its rows, oldest first
AnalyticsLoaded(i) ==
    /\ i \in 1..Len(anaInflight)
    /\ anaWeatherData' = RangeFilter(storeReadings, storeLocations,
                                     anaInflight[i].start, anaInflight[i].end)
    /\ anaIsLoading' = FALSE
    /\ anaInflight' = Remove(anaInflight, i)
    /\ UNCHANGED <<anaTimeRange, anaMounted, envVars, pickerVars, storeVars,
                   dashVars, volVars, refVars,
                   otherVars, extVars>>

\* fetchAnalyticsData: query i fails, which is logged
AnalyticsFailed(i) ==
    /\ i \in 1..Len(anaInflight)
    /\ anaIsLoading' = FALSE
    /\ anaInflight' = Remove(anaInflight, i)
    /\ UNCHANGED <<anaWeatherData, anaTimeRange, anaMounted, envVars, pickerVars,
                   storeVars, dashVars, volVars, refVars,
                   otherVars, extVars>>

-----------------------------------------------------------------------------
(* DateRangePicker *)

(* A Date, and the { start, end } object a page keeps in dateRange, is an     *)
(* object with an identity: `heap` maps the identities of the objects the     *)
(* components can still reach to their values.  startDate, endDate and        *)
(* dateRange are the values read through startRef, endRef and rangeRef.       *)
(* Identities are places: when a handler returns, the objects still reached   *)
(* are moved to the first places and the others are reclaimed.                *)

\* the least identity that h does not use
Fresh(h) ==
    CHOOSE n \in 1..(Cardinality(DOMAIN h) + 1) :
        n \notin DOMAIN h /\ \A j \in 1..(n - 1) : j \in DOMAIN h

\* new Date(...) or an object literal: h with one more object, of value v
Alloc(h, v) ==
    [o \in DOMAIN h \cup {Fresh(h)} |-> IF o \in DOMAIN h THEN h[o] ELSE v]

\* a method that changes its receiver (setHours, setDate, setTime)
Mutate(h, o, v) == [h EXCEPT ![o] = v]

\* where the collector puts the objects the state cells s, e (Dates) and r
\* (a range) reach, once the handler has returned
Forward(s, e, r) == (s :> 1) @@ (e :> 2) @@ (r :> 3)

\* the heap after the handler has returned: the objects the state cells
\* reach, at their new places; what no state cell reaches is gone
Collect(h, s, e, r) ==
    <<h[s], h[e], Range(Forward(s, e, r)[h[r].start], Forward(s, e, r)[h[r].end])>>

\* setStartDate(s), setEndDate(e) and the page's setDateRange(r), on heap h;
\* `moved` says where each object that was there before the handler is now
Adopt(h, s, e, r) ==
    \E kept \in {h} :
        /\ startRef' = Forward(s, e, r)[s]
        /\ endRef' = Forward(s, e, r)[e]
        /\ rangeRef' = Forward(s, e, r)[r]
        /\ heap' = Collect(kept, s, e, r)
        /\ moved' = [o \in DOMAIN heap \cap {s, e, r} |-> Forward(s, e, r)[o]]

Presets == {"last7days", "last30days", "last90days", "ytd"}

NoDate == [y |-> 0, m |-> 0, d |-> 0]
Event(kind, preset, date, now) ==
    [kind |-> kind, preset |-> preset, date |-> date, now |-> now]

\* a default of thirty days
defaultRangeMonth == "last30days"

\* the prop both pages pass, which is also the prop's default
defaultRange == "last7days"

\* the range without the day next to today
PresetRangeShort(preset, now, off) ==
    LET today == setHours(now, off, EndOfDayMs)
        start == setHours(now, off, 0)
    IN  CASE preset = "last7days"  -> Range(setDate(start, off, getDate(today, off) - 6), today)
          [] preset = "last30days" -> Range(setDate(start, off, getDate(today, off) - 29), today)
          [] preset = "last90days" -> Range(setDate(start, off, getDate(today, off) - 89), today)
          [] preset = "ytd" -> Range(NewLocalDate(getFullYear(today, off), 1, 1, off), today)

\* the year-to-date range counted from the first of the current month
PresetRangeMonth(preset, now, off) ==
    LET today == setHours(now, off, EndOfDayMs)
        start == setHours(now, off, 0)
    IN  CASE preset = "last7days"  -> Range(setDate(start, off, getDate(today, off) - 7), today)
          [] preset = "last30days" -> Range(setDate(start, off, getDate(today, off) - 30), today)
          [] preset = "last90days" -> Range(setDate(start, off, getDate(today, off) - 90), today)
          [] preset = "ytd" -> Range(setDate(start, off, 1), today)

\* the year-to-date range with the month counted from one
PresetRangeMonthIndex(preset, now, off) ==
    LET today == setHours(now, off, EndOfDayMs)
        start == setHours(now, off, 0)
    IN  CASE preset = "last7days"  -> Range(setDate(start, off, getDate(today, off) - 7), today)
          [] preset = "last30days" -> Range(setDate(start, off, getDate(today, off) - 30), today)
          [] preset = "last90days" -> Range(setDate(start, off, getDate(today, off) - 90), today)
          [] preset = "ytd" -> Range(NewLocalDate(getFullYear(today, off), 2, 1, off), today)

\* the values of `start` and `today` at the end of applyPreset's switch, for
\* one of the four presets, when the handler runs at instant now
PresetRange(preset, now, off) ==
    LET today == setHours(now, off, EndOfDayMs)
        start == setHours(now, off, 0)
    IN  CASE preset = "last7days"  -> Range(setDate(start, off, getDate(today, off) - 7), today)
          [] preset = "last30days" -> Range(setDate(start, off, getDate(today, off) - 30), today)
          [] preset = "last90days" -> Range(setDate(start, off, getDate(today, off) - 90), today)
          [] preset = "ytd" -> Range(NewLocalDate(getFullYear(today, off), 1, 1, off), today)

\* applyPreset: any other preset name returns before the state is touched
applyPreset(preset, kind) ==
    IF preset \in Presets
    THEN \E r \in {PresetRange(preset, clock, tz)} :
         \* today = new Date(), then today.setHours(23, 59, 59, 999)
         \E today \in {Fresh(heap)} :
         \E h1 \in {Mutate(Alloc(heap, clock), today, r.end)} :
         \* start = new Date(), then start.setHours(0, 0, 0, 0)
         \E first \in {Fresh(h1)} :
         \E h2 \in {Mutate(Alloc(h1, clock), first, setHours(clock, tz, 0))} :
         \* start.setDate(...), or for ytd start = new Date(year, 0, 1)
         \E start \in {IF preset = "ytd" THEN Fresh(h2) ELSE first} :
         \E h3 \in {IF preset = "ytd" THEN Alloc(h2, r.start)
                                      ELSE Mutate(h2, first, r.start)} :
         \* onChange(start, today): setDateRange({ start, end })
         \E range \in {Fresh(h3)} :
             /\ startDate' = r.start
             /\ endDate' = r.end
             /\ rangePreset' = preset
             /\ lastEvent' = Event(kind, preset, NoDate, clock)
             /\ handleDateRangeChange(r.start, r.end)
             /\ Adopt(Alloc(h3, Range(start, today)), start, today, range)
    ELSE /\ lastEvent' = Event(kind, preset, NoDate, clock)
         /\ UNCHANGED <<startDate, endDate, rangePreset, dateRange, locations,
                        weatherReadings, volatility, isLoading, error,
                        inflight, issued, dashMetrics, refVars>>

\* the first commit of the Dashboard or of WeatherData: the picker's effect
\* applies defaultRange, then the page's effects call fetchLocations and
\* find no location yet
Mount ==
    /\ page \in {"dashboard", "weatherdata"}
    /\ effectPending
    /\ effectPending' = FALSE
    /\ applyPreset(defaultRange, "mount")
    /\ locReq' = "pending"
    /\ UNCHANGED <<envVars, storeVars, anaVars, volVars, otherVars, extVars>>

\* a click on one of the four preset buttons
PresetClick(preset) ==
    /\ ~effectPending
    /\ MayFetch
    /\ applyPreset(preset, "preset")
    /\ UNCHANGED <<effectPending, locReq, envVars, storeVars, anaVars, volVars, otherVars,
                   extVars>>

\* an end-date handler that leaves the selection mode as it is
handleEndDateChangeKeepMode(value) ==
    /\ ~effectPending
    /\ MayFetch
    /\ \E newEndDate \in {setHours(ParseDateOnly(value), tz, EndOfDayMs)} :
       \E fresh \in {Fresh(heap)} :
       \E h1 \in {Mutate(Alloc(heap, ParseDateOnly(value)), fresh, newEndDate)} :
       \E range \in {Fresh(h1)} :
           /\ endDate' = newEndDate
           /\ handleDateRangeChange(startDate, newEndDate)
           /\ Adopt(Alloc(h1, Range(startRef, fresh)), startRef, fresh, range)
    /\ lastEvent' = Event("end", "custom", value, clock)
    /\ UNCHANGED <<startDate, rangePreset, effectPending, locReq, envVars,
                   storeVars, anaVars, volVars, otherVars, extVars>>

\* a start-date handler that sets the Date object it holds instead of
\* building a new one
handleStartDateChangeInPlace(value) ==
    /\ ~effectPending
    /\ MayFetch
    /\ \E newStartDate \in {setHours(ParseDateOnly(value), tz, 0)} :
       \E h1 \in {Mutate(heap, startRef, newStartDate)} :
       \E range \in {Fresh(h1)} :
           /\ startDate' = newStartDate
           /\ handleDateRangeChange(newStartDate, endDate)
           /\ Adopt(Alloc(h1, Range(startRef, endRef)), startRef, endRef, range)
    /\ rangePreset' = "custom"
    /\ lastEvent' = Event("start", "custom", value, clock)
    /\ UNCHANGED <<endDate, effectPending, locReq, envVars, storeVars, anaVars, volVars, otherVars,
                   extVars>>

\* the start input changes to the date `value`
handleStartDateChange(value) ==
    /\ ~effectPending
    /\ MayFetch
    /\ \E newStartDate \in {setHours(ParseDateOnly(value), tz, 0)} :
       \* newStartDate = new Date(value), then newStartDate.setHours(0, 0, 0, 0)
       \E fresh \in {Fresh(heap)} :
       \E h1 \in {Mutate(Alloc(heap, ParseDateOnly(value)), fresh, newStartDate)} :
       \E range \in {Fresh(h1)} :
           /\ startDate' = newStartDate
           /\ handleDateRangeChange(newStartDate, endDate)
           /\ Adopt(Alloc(h1, Range(fresh, endRef)), fresh, endRef, range)
    /\ rangePreset' = "custom"
    /\ lastEvent' = Event("start", "custom", value, clock)
    /\ UNCHANGED <<endDate, effectPending, locReq, envVars, storeVars, anaVars, volVars, otherVars,
                   extVars>>

\* the end input changes to the date `value`
handleEndDateChange(value) ==
    /\ ~effectPending
    /\ MayFetch
    /\ \E newEndDate \in {setHours(ParseDateOnly(value), tz, EndOfDayMs)} :
       \* newEndDate = new Date(value), then newEndDate.setHours(23, 59, 59, 999)
       \E fresh \in {Fresh(heap)} :
       \E h1 \in {Mutate(Alloc(heap, ParseDateOnly(value)), fresh, newEndDate)} :
       \E range \in {Fresh(h1)} :
           /\ endDate' = newEndDate
           /\ handleDateRangeChange(startDate, newEndDate)
           /\ Adopt(Alloc(h1, Range(startRef, fresh)), startRef, fresh, range)
    /\ rangePreset' = "custom"
    /\ lastEvent' = Event("end", "custom", value, clock)
    /\ UNCHANGED <<startDate, effectPending, locReq, envVars, storeVars, anaVars, volVars, otherVars,
                   extVars>>

-----------------------------------------------------------------------------
(* The environment: the clock, the time zone, the typed dates, the store *)

ClockDay(k) == DaysFromCivil(2023, 12, 31) + 61 * k

\* midnight, noon and the last millisecond of a UTC day
ClockTimes == {0, 12 * 60 * 60 * 1000, EndOfDayMs}

ClockInstants == {Instant(ClockDay(k), t) : k \in 0..MaxClockIdx, t \in ClockTimes}

\* UTC-5, UTC and UTC+5:30
TzOffsets == {-300, 0, 330}

\* 2024-03-01, 2024-03-10, 2024-03-19, ...
InputDates == {CivilFromDays(DaysFromCivil(2024, 3, 1) + 9 * k) : k \in 0..MaxInputIdx}

\* time passes
Tick ==
    /\ \E t \in ClockInstants : ~Leq(t, clock) /\ clock' = t
    /\ UNCHANGED <<page, tz, pickerVars, storeVars, dashVars, anaVars, volVars, refVars,
                   otherVars, extVars>>

\* three readings of one location in March 2024 and a fourth of the day
\* before the first clock day
FixedReadings ==
    <<Row(1, 1, Instant(DaysFromCivil(2023, 12, 30), 0), Some(10), Some(40), Null, Some(0)),
      Row(2, 1, Instant(DaysFromCivil(2024, 3, 3), 0), Some(20), Some(60), Null, Some(0)),
      Row(3, 1, Instant(DaysFromCivil(2024, 3, 5), 0), Some(10), Null, Some(30), Some(0)),
      Row(4, 1, Instant(DaysFromCivil(2024, 3, 12), 0), Null, Some(40), Some(10), Some(0))>>

\* the state of the components after their first render
\* startDate: new Date() moved back seven days; dateRange.start: Date.now()
\* less seven times 24 hours
PageInit ==
    /\ startDate = setDate(clock, tz, getDate(clock, tz) - 7)
    /\ endDate = clock
    /\ rangePreset = defaultRange
    /\ effectPending = TRUE
    /\ lastEvent = Event("none", "", NoDate, clock)
    /\ dateRange = Range(Instant(clock.day - 7, clock.ms), clock)
    /\ locations = <<>>
    /\ locReq = "idle"
    /\ weatherReadings = <<>>
    /\ volatility = Num(0)
    /\ isLoading = TRUE
    /\ error = NoError
    /\ inflight = <<>>
    /\ issued = 0
    /\ dashMetrics = <<>>
    /\ anaWeatherData = <<>>
    /\ anaIsLoading = TRUE
    /\ anaTimeRange = "week"
    /\ anaMounted = FALSE
    /\ anaInflight = <<>>
    \* the Dates of the picker's two useState calls, and the page's dateRange
    /\ heap = <<startDate, endDate, dateRange.start, dateRange.end, Range(3, 4)>>
    /\ startRef = 1
    /\ endRef = 2
    /\ rangeRef = 5
    /\ moved = <<>>
    /\ selectedLocation = AllLocations
    /\ dataRangeDays = 7
    /\ isSubmitting = FALSE
    /\ insertError = NoError
    /\ requests = <<>>
    /\ lastAlert = ""
    /\ isDarkMode = FALSE
    /\ rootDark = FALSE
    /\ appMounted = FALSE
    /\ toggled = FALSE
    /\ TipIdle

\* a browser without a saved theme, a dark preference or a signed-in user;
\* the ids of the store's locations were given out in order
EnvIdle ==
    /\ nextLocId = Len(storeLocations) + 1
    /\ session = "anon"
    /\ savedTheme = "null"
    /\ prefersDark = FALSE

\* the populate script is not running
ScriptIdle ==
    /\ scriptPc = "idle"
    /\ locationData = <<>>
    /\ scriptReadings = <<>>
    /\ batchStart = 0
    /\ scriptLog = <<>>

\* the add-location form before anything is typed
FormIdle == newLocation = EmptyForm

VolIdle ==
    /\ volIn = [m \in Metrics |-> Absent]
    /\ volOut = <<>>

-----------------------------------------------------------------------------
(* Specifications *)

\* the volatility function on every input VolInit draws
InitVol ==
    /\ page = "dashboard"
    /\ clock = Instant(ClockDay(0), 0)
    /\ tz = 0
    /\ storeReadings = <<>>
    /\ storeLocations = <<>>
    /\ PageInit
    /\ FormIdle
    /\ EnvIdle
    /\ VolInit
    /\ ScriptIdle

NextVol == CallVolatility

SpecVol == InitVol /\ [][NextVol]_vars

\* the picker at every clock instant and in every time zone, while the
\* Dashboard's locations request is pending
InitPicker ==
    /\ page = "dashboard"
    /\ clock \in ClockInstants
    /\ tz \in TzOffsets
    /\ storeReadings = FixedReadings
    /\ storeLocations = <<1>>
    /\ PageInit
    /\ FormIdle
    /\ EnvIdle
    /\ VolIdle
    /\ ScriptIdle

NextPicker ==
    \/ Mount
    \/ \E p \in Presets : PresetClick(p)
    \/ \E d \in InputDates : handleStartDateChange(d)
    \/ \E d \in InputDates : handleEndDateChange(d)
    \/ Tick

SpecPicker == InitPicker /\ [][NextPicker]_vars


\* the first two dates of InputDates
DashDates == {CivilFromDays(DaysFromCivil(2024, 3, 1) + 9 * k) : k \in 0..1}

\* the Dashboard with its picker and the store's responses
InitDash ==
    /\ page = "dashboard"
    /\ clock = Instant(ClockDay(2), 12 * 60 * 60 * 1000)
    /\ tz = 0
    /\ storeReadings = FixedReadings
    /\ storeLocations = <<1>>
    /\ PageInit
    /\ FormIdle
    /\ EnvIdle
    /\ VolIdle
    /\ ScriptIdle

NextDash ==
    \/ Mount
    \/ PresetClick("last90days")
    \/ \E d \in DashDates : handleStartDateChange(d)
    \/ \E d \in DashDates : handleEndDateChange(d)
    \/ LocationsLoaded
    \/ LocationsFailed
    \/ \E i \in 1..MaxQueries : WeatherLoaded(i)
    \/ \E i \in 1..MaxQueries : WeatherFailed(i)

SpecDash == InitDash /\ [][NextDash]_vars

\* WeatherData with its picker, its 'Data Range' select and the store's
\* responses
InitWeatherData ==
    /\ page = "weatherdata"
    /\ clock = Instant(ClockDay(2), 12 * 60 * 60 * 1000)
    /\ tz = 0
    /\ storeReadings = FixedReadings
    /\ storeLocations = <<1>>
    /\ PageInit
    /\ FormIdle
    /\ EnvIdle
    /\ VolIdle
    /\ ScriptIdle

NextWeatherData ==
    \/ Mount
    \/ PresetClick("last90days")
    \/ \E d \in DashDates : handleStartDateChange(d)
    \/ \E days \in DataRangeOptions : SelectDataRange(days)
    \/ LocationsLoaded
    \/ WdLocationsFailed
    \/ \E i \in 1..MaxQueries : WdWeatherLoaded(i)
    \/ \E i \in 1..MaxQueries : WdWeatherFailed(i)
    \/ RefreshData

SpecWeatherData == InitWeatherData /\ [][NextWeatherData]_vars

\* a nullable column of n rows whose row i holds null or one of vals[i]
NullableColumns(n, vals) ==
    {c \in [1..n -> {Null} \cup {Some(v) : v \in UNION {vals[i] : i \in 1..n}}] :
        \A i \in 1..n : c[i] = Null \/ c[i][1] \in vals[i]}

\* tables of up to MaxRows readings of the week before the clock: any
\* temperature may be null, 10 or 30, any humidity null or 20 times its row
\* number, and the pressures are all null or all 10
VariedReadings ==
    UNION {{[i \in 1..n |->
                Row(i, 1, Instant(ClockDay(1) - (n + 1 - i), 0),
                    t[i], h[i], p, Some(0))] :
            t \in NullableColumns(n, [i \in 1..n |-> {10, 30}]),
            h \in NullableColumns(n, [i \in 1..n |-> {20 * i}]),
            p \in {Null, Some(10)}} : n \in 0..MaxRows}

\* the Dashboard, WeatherData and the Analytics page over tables with null
\* columns
InitPages ==
    /\ page \in {"dashboard", "weatherdata", "analytics"}
    /\ clock = Instant(ClockDay(1), 12 * 60 * 60 * 1000)
    /\ tz = 0
    /\ storeReadings \in VariedReadings
    /\ storeLocations = <<1>>
    /\ PageInit
    /\ FormIdle
    /\ EnvIdle
    /\ VolIdle
    /\ ScriptIdle

NextPages ==
    \/ Mount
    \/ LocationsLoaded
    \/ LocationsFailed
    \/ \E i \in 1..MaxQueries : WeatherLoaded(i)
    \/ \E i \in 1..MaxQueries : WeatherFailed(i)
    \/ WdLocationsFailed
    \/ \E i \in 1..MaxQueries : WdWeatherLoaded(i)
    \/ \E i \in 1..MaxQueries : WdWeatherFailed(i)
    \/ RefreshData
    \/ \E sel \in {AllLocations} \cup {<<l>> : l \in 1..MaxLocations} : SelectLocation(sel)
    \/ AnalyticsMount
    \/ \E r \in TimeRanges : SetTimeRange(r)
    \/ \E i \in 1..MaxQueries : AnalyticsLoaded(i)
    \/ \E i \in 1..MaxQueries : AnalyticsFailed(i)

SpecPages == InitPages /\ [][NextPages]_vars

\* the texts typed into the form
TypedNames == {<<"A">>}
TypedLatitudes == {<<"4", "5">>, <<"9", "1">>}
TypedLongitudes == {<<"9", "0">>}

\* the App on the Locations page: the theme, the list, the form, the delete
\* button
InitApp ==
    /\ page = "locations"
    /\ clock = Instant(ClockDay(1), 12 * 60 * 60 * 1000)
    /\ tz = 0
    /\ storeReadings = FixedReadings
    /\ storeLocations = <<1>>
    /\ nextLocId = 2
    /\ session \in {"anon", "authenticated"}
    /\ savedTheme \in {"null", "dark", "light"}
    /\ prefersDark \in BOOLEAN
    /\ PageInit
    /\ FormIdle
    /\ VolIdle
    /\ ScriptIdle

NextApp ==
    \/ AppMount
    \/ toggleDarkMode
    \/ LocationsPageMount
    \/ \E i \in 1..MaxQueries : LocationsPageLoaded(i)
    \/ \E i \in 1..MaxQueries : LocationsPageFailed(i)
    \/ \E t \in TypedNames : SetField("name", t)
    \/ \E t \in TypedLatitudes : SetField("latitude", t)
    \/ \E t \in TypedLongitudes : SetField("longitude", t)
    \/ handleSubmit
    \/ \E i \in 1..MaxQueries : InsertLoaded(i)
    \/ \E i \in 1..MaxQueries : InsertFailed(i)
    \/ \E l \in 1..MaxLocations : handleDelete(l)
    \/ \E i \in 1..MaxQueries : DeleteLoaded(i)
    \/ \E i \in 1..MaxQueries : DeleteFailed(i)

SpecApp == InitApp /\ [][NextApp]_vars

\* the characters typed into the number inputs
FormChars == {"-", ".", "0", "1", "9"}

\* a valid floating-point number: a sign, digits, a point and digits, with
\* digits on at least one side of the point and none missing after it
IsValidFloat(text) ==
    LET body == IF text # <<>> /\ text[1] = "-" THEN Tail(text) ELSE text
        int  == TakeDigits(body)
        rest == SubSeq(body, Len(int) + 1, Len(body))
    IN  \/ int # <<>> /\ rest = <<>>
        \/ /\ rest # <<>>
           /\ rest[1] = "."
           /\ Len(rest) > 1
           /\ TakeDigits(Tail(rest)) = Tail(rest)

\* the values a number input can hold: the empty string or a valid
\* floating-point number
NumberInputValues(n) ==
    {<<>>} \cup {t \in UNION {[1..k -> FormChars] : k \in 1..n} : IsValidFloat(t)}

\* a coordinate in range and one out of range
FewNumberInputValues == {<<"9", "0">>, <<"1", "9", "1">>}

\* the names in the form's text input
FormNames == {<<>>, <<" ">>, <<" ", "A">>}

\* the add-location form with every content the inputs can hold
InitForm ==
    /\ page = "locations"
    /\ clock = Instant(ClockDay(1), 12 * 60 * 60 * 1000)
    /\ tz = 0
    /\ storeReadings = FixedReadings
    /\ storeLocations = <<1>>
    /\ nextLocId = 2
    /\ session \in {"anon", "authenticated"}
    /\ savedTheme = "null"
    /\ prefersDark = FALSE
    /\ PageInit
    /\ \E name \in FormNames :
       \E one \in NumberInputValues(MaxChars), other \in FewNumberInputValues :
       \E latitude \in {one, other} :
          newLocation = [EmptyForm EXCEPT !.name = name, !.latitude = latitude,
                            !.longitude = IF latitude = one THEN other ELSE one]
    /\ VolIdle
    /\ ScriptIdle

NextForm ==
    \/ LocationsPageMount
    \/ \E i \in 1..MaxQueries : LocationsPageLoaded(i)
    \/ \E i \in 1..MaxQueries : LocationsPageFailed(i)
    \/ handleSubmit
    \/ \E i \in 1..MaxQueries : InsertLoaded(i)
    \/ \E i \in 1..MaxQueries : InsertFailed(i)

SpecForm == InitForm /\ [][NextForm]_vars

\* a reading of location 1 that the store holds before the script runs
OldReading == Row(1, 1, Instant(ClockDay(0), 0), Some(10), Some(40), Null, Some(0))

\* the populate script, run once on a store with or without rows
InitScript ==
    /\ page = "dashboard"
    /\ clock \in ClockInstants
    /\ tz = 0
    /\ \E locs \in {<<>>, <<1>>} :
          /\ storeLocations = locs
          /\ nextLocId = Len(locs) + 1
          /\ storeReadings \in IF locs = <<>> THEN {<<>>} ELSE {<<>>, <<OldReading>>}
    /\ session = "anon"
    /\ savedTheme = "null"
    /\ prefersDark = FALSE
    /\ PageInit
    /\ FormIdle
    /\ volIn = [m \in Metrics |-> Absent] /\ volOut = <<>>
    /\ scriptPc = "clearReadings"
    /\ locationData = <<>>
    /\ scriptReadings = <<>>
    /\ batchStart = 0
    /\ scriptLog = <<>>

NextScript ==
    \/ \E ok \in BOOLEAN : ScriptClearReadings(ok)
    \/ \E ok \in BOOLEAN : ScriptClearLocations(ok)
    \/ \E ok \in BOOLEAN : ScriptInsertLocations(ok)
    \/ \E ok \in BOOLEAN : ScriptInsertBatch(ok)

SpecScript == InitScript /\ [][NextScript]_vars

\* a tooltip under the pointer, the focus and the clock
InitTooltip ==
    /\ page = "dashboard"
    /\ clock = Instant(ClockDay(1), 12 * 60 * 60 * 1000)
    /\ tz = 0
    /\ storeReadings = FixedReadings
    /\ storeLocations = <<1>>
    /\ PageInit
    /\ FormIdle
    /\ EnvIdle
    /\ VolIdle
    /\ ScriptIdle

NextTooltip ==
    \/ MouseEnter
    \/ MouseLeave
    \/ Focus
    \/ Blur
    \/ Elapse
    \/ \E id \in 1..MaxTimers : TimerFires(id)
    \/ Unmount

SpecTooltip == InitTooltip /\ [][NextTooltip]_vars

\* the instants a reading can be recorded at
ReadingTimes == {Instant(ClockDay(1) - k, 0) : k \in 1..2}

\* the store under the statements of a service session and the Locations
\* page's delete button
InitStore ==
    /\ page = "locations"
    /\ clock = Instant(ClockDay(1), 12 * 60 * 60 * 1000)
    /\ tz = 0
    /\ storeReadings = <<>>
    /\ storeLocations = <<>>
    /\ nextLocId = 1
    /\ session \in {"anon", "authenticated"}
    /\ savedTheme = "null"
    /\ prefersDark = FALSE
    /\ PageInit
    /\ FormIdle
    /\ VolIdle
    /\ ScriptIdle

NextStore ==
    \/ ServiceInsertLocation
    \/ \E l \in 1..MaxLocations, t \in ReadingTimes : ServiceInsertReading(l, t)
    \/ \E l \in 1..MaxLocations : ServiceDeleteLocation(l)
    \/ LocationsPageMount
    \/ \E i \in 1..MaxQueries : LocationsPageLoaded(i)
    \/ \E l \in 1..MaxLocations : handleDelete(l)
    \/ \E i \in 1..MaxQueries : DeleteLoaded(i)
    \/ \E i \in 1..MaxQueries : DeleteFailed(i)

SpecStore == InitStore /\ [][NextStore]_vars

-----------------------------------------------------------------------------
(* Claims about the volatility score, checked under SpecVol *)

RECURSIVE SumOfSquares(_)
SumOfSquares(s) == IF s = <<>> THEN 0 ELSE s[1] * s[1] + SumOfSquares(Tail(s))

\* r is the population standard deviation of s, in units of 1 / Scale and
\* rounded down: with n samples of sum S, the variance is the mean of the
\* squares less the square of the mean, (n * sum of squares - S * S) / n^2
IsPopulationSd(s, r) ==
    LET n == Len(s)
        q == n * SumOfSquares(s) - SumSeq(s) * SumSeq(s)
    IN  /\ r >= 0
        /\ r * r * n * n <= Scale * Scale * q
        /\ Scale * Scale * q < (r + 1) * (r + 1) * n * n

Qualifies(metrics, m) == metrics[m].present /\ Len(metrics[m].samples) >= 2

\* the standard deviation the score counts for metric m
CountedSd(metrics, m) ==
    IF Qualifies(metrics, m) THEN calculateVolatility(metrics[m].samples) ELSE 0

\* C1: for every input the score is 0.4 sd(temperature) + 0.2 sd(humidity) +
\* 0.2 sd(pressure) + 0.2 sd(windSpeed), sd being the population standard
\* deviation of each metric with at least two samples; temperature = [10, 20]
\* alone scores 2.0.
C1_WeightedPopulationSd ==
    volOut # <<>> =>
        /\ ~volOut[1].nan
        /\ volOut[1].v = 4 * CountedSd(volIn, "temperature")
                         + 2 * CountedSd(volIn, "humidity")
                         + 2 * CountedSd(volIn, "pressure")
                         + 2 * CountedSd(volIn, "windSpeed")
        /\ \A m \in Metrics :
               Qualifies(volIn, m) =>
                   IsPopulationSd(volIn[m].samples, CountedSd(volIn, m))
        /\ (/\ volIn.temperature = Series(<<10, 20>>)
            /\ \A m \in Metrics \ {"temperature"} : ~Qualifies(volIn, m))
               => volOut[1].v = 2 * 10 * Scale

\* two metrics count: temperature [10, 20] gives 2.0, humidity [10, 30] gives 2.0
C1_Witness ==
    /\ volOut # <<>>
    /\ volIn.temperature = Series(<<10, 20>>)
    /\ volIn.humidity = Series(<<10, 30>>)
    /\ ~Qualifies(volIn, "pressure")
    /\ ~Qualifies(volIn, "windSpeed")
    /\ volOut[1] = Num(4 * 10 * Scale)

\* C2: a metric that is absent, empty or has one sample contributes 0 and
\* never makes the call fail; when no metric qualifies the score is 0.
C2_SparseMetricsCountZero ==
    volOut # <<>> =>
        /\ ~volOut[1].nan
        /\ (\A m \in Metrics : ~Qualifies(volIn, m)) => volOut[1] = Num(0)
        /\ \A m \in Metrics :
               ~Qualifies(volIn, m) =>
                   volOut[1] = calculateWeatherVolatility([volIn EXCEPT ![m] = Absent])

\* one sample, an empty array and an unset metric beside a metric that counts
C2_Witness ==
    /\ volOut # <<>>
    /\ volIn.temperature = Series(<<20>>)
    /\ volIn.humidity = Series(<<>>)
    /\ volIn.pressure = Absent
    /\ volIn.windSpeed = Series(<<10, 30>>)
    /\ volOut[1] = Num(2 * 10 * Scale)

\* C15: for every input of finite samples the score is a number that is not
\* negative, and so is every weighted entry that makes it up.
C15_ScoreNonNegative ==
    volOut # <<>> =>
        /\ volOut[1].nan = FALSE
        /\ volOut[1].v >= 0
        /\ \A i \in 1..Len(Volatilities(volIn)) : Volatilities(volIn)[i] >= 0

\* a metric with a negative sample and readings that fall: the score is positive
C15_Witness ==
    /\ volOut # <<>>
    /\ \E m \in Metrics :
           /\ Qualifies(volIn, m)
           /\ volIn[m].samples[1] > volIn[m].samples[Len(volIn[m].samples)]
           /\ volIn[m].samples[Len(volIn[m].samples)] < 0
    /\ volOut[1].v > 0

\* the score 10.0 in the units of a score
TenPoints == 10 * 10 * Scale

\* C16: the score is on a scale from 0 to 10: for every input the result lies
\* between 0 and 10.
C16_ScoreWithinTen ==
    volOut # <<>> => (volOut[1].v >= 0 /\ volOut[1].v <= TenPoints)

\* the samples of s in the order p, a permutation of its indices
Permuted(s, p) == [i \in 1..Len(s) |-> s[p[i]]]

-----------------------------------------------------------------------------
(* Claims about the pages' use of the score, checked under SpecPages *)

\* the values of the entries of a nullable column that are not null
NonNullValues(col) ==
    LET kept == SelectSeq(col, LAMBDA x : Len(x) = 1)
    IN  [i \in 1..Len(kept) |-> kept[i][1]]

ColumnOf(m) ==
    CASE m = "temperature" -> "temperature_c"
      [] m = "humidity" -> "humidity_percent"
      [] m = "pressure" -> "pressure_hpa"
      [] m = "windSpeed" -> "wind_speed_ms"

\* the Dashboard's sample arrays are the non-null values of their columns
DashboardFiltersNulls ==
    (page = "dashboard" /\ dashMetrics # <<>> /\ error = NoError /\ inflight = <<>>) =>
        \A m \in Metrics :
            dashMetrics[1][m].present =>
                dashMetrics[1][m].samples
                    = NonNullValues(Column(weatherReadings, ColumnOf(m)))

\* the Analytics page's sample arrays are the non-null values of their columns
AnalyticsFiltersNulls ==
    (page = "analytics" /\ anaWeatherData # <<>>) =>
        \A m \in Metrics :
            AnalyticsMetrics(anaWeatherData)[1][m].samples
                = NonNullValues(Column(anaWeatherData, ColumnOf(m)))

\* C3: on the Dashboard and on the Analytics page the sample arrays passed to
\* calculateWeatherVolatility hold exactly the non-null values of their
\* columns; no null is replaced by 0.
C3_NullsFilteredOnEveryPage == DashboardFiltersNulls /\ AnalyticsFiltersNulls

\* the Analytics page keeps what it shows when a refresh fails
AnalyticsKeepsDisplay ==
    [][\A i \in 1..MaxQueries :
          AnalyticsFailed(i) => anaWeatherData' = anaWeatherData]_vars

\* C12: a failed refresh of the weather data leaves the readings shown, and
\* the volatility derived from them, as they were, on the Dashboard, on
\* WeatherData and on the Analytics page.
C12_FailedRefreshKeepsDisplay ==
    [][\A i \in 1..MaxQueries :
          /\ WeatherFailed(i) =>
                 (weatherReadings' = weatherReadings /\ volatility' = volatility)
          /\ WdWeatherFailed(i) => weatherReadings' = weatherReadings
          /\ AnalyticsFailed(i) => anaWeatherData' = anaWeatherData]_vars

\* the score of the non-null values of the four columns of `rows`
ScoreOfColumns(rows) ==
    calculateWeatherVolatility(
        [m \in Metrics |-> Series(NonNullValues(Column(rows, ColumnOf(m))))])

\* C20: after every successful weather fetch the Dashboard's volatility is
\* the score of the non-null values of the four columns of the fetched
\* readings: a column with fewer than two values counts 0 and takes nothing
\* from the other columns.
C20_DashboardVolatilityOverColumns ==
    [][\A i \in 1..MaxQueries :
          WeatherLoaded(i) => volatility' = ScoreOfColumns(weatherReadings')]_vars

\* the same, when at least two temperatures are not null
DashboardVolatilityWithTemperatures ==
    [][\A i \in 1..MaxQueries :
          (/\ WeatherLoaded(i)
           /\ Len(NonNullValues(Column(weatherReadings', "temperature_c"))) >= 2)
              => volatility' = ScoreOfColumns(weatherReadings')]_vars

-----------------------------------------------------------------------------
(* Claims about the DateRangePicker, checked under SpecPicker and SpecDash *)

PresetDays(p) ==
    CASE p = "last7days" -> 7 [] p = "last30days" -> 30 [] p = "last90days" -> 90

\* the picker state is the one the preset of lastEvent produced
AfterPreset == lastEvent.kind \in {"mount", "preset"} /\ lastEvent.preset \in Presets

\* the local calendar date of an instant
LocalCivil(t) == CivilFromDays(LocalDay(t, tz))

\* t is the last millisecond of the local day of instant now
IsEndOfDayOf(t, now) ==
    LocalDay(t, tz) = LocalDay(now, tz) /\ LocalMs(t, tz) = EndOfDayMs

\* C4: for every now and N = 7, 30, 90 the preset's end is 23:59:59.999 local
\* of now's day and its start 00:00:00.000 local of the day N days earlier,
\* also across a month or year boundary.
C4_LastNDays ==
    (AfterPreset /\ lastEvent.preset # "ytd") =>
        /\ IsEndOfDayOf(endDate, lastEvent.now)
        /\ LocalDay(startDate, tz) = LocalDay(lastEvent.now, tz) - PresetDays(lastEvent.preset)
        /\ LocalMs(startDate, tz) = 0
        /\ LocalDay(endDate, tz) - LocalDay(startDate, tz) + 1
               = PresetDays(lastEvent.preset) + 1
        /\ dateRange = Range(startDate, endDate)

\* last7days clicked on the local 1 January: the start lies in the old year
C4_Witness ==
    /\ lastEvent.kind = "preset"
    /\ lastEvent.preset = "last7days"
    /\ LocalCivil(lastEvent.now).m = 1
    /\ LocalCivil(startDate).m = 12
    /\ LocalCivil(startDate).y = LocalCivil(endDate).y - 1

\* C5: for every now the ytd preset starts at 1 January 00:00:00.000 local of
\* now's year and ends at 23:59:59.999 local of now's day.
C5_YearToDate ==
    (AfterPreset /\ lastEvent.preset = "ytd") =>
        /\ LocalCivil(startDate) = [y |-> LocalCivil(lastEvent.now).y, m |-> 1, d |-> 1]
        /\ LocalMs(startDate, tz) = 0
        /\ IsEndOfDayOf(endDate, lastEvent.now)
        /\ dateRange = Range(startDate, endDate)

\* ytd clicked on a day that is not in January
C5_Witness ==
    /\ lastEvent.kind = "preset"
    /\ lastEvent.preset = "ytd"
    /\ LocalCivil(lastEvent.now).m > 1
    /\ LocalCivil(startDate).m = 1
    /\ rangePreset = "ytd"

\* C6: for each of the four presets and any now, start <= end.
C6_PresetStartBeforeEnd ==
    AfterPreset => Leq(startDate, endDate) /\ Leq(dateRange.start, dateRange.end)

\* ytd clicked on the local 1 January: start and end lie on the same day
C6_Witness ==
    /\ lastEvent.kind = "preset"
    /\ lastEvent.preset = "ytd"
    /\ LocalDay(startDate, tz) = LocalDay(endDate, tz)
    /\ startDate # endDate

\* C7: the custom start bound is 00:00:00.000 local of the day entered in the
\* start input and the custom end bound 23:59:59.999 local of the day entered
\* in the end input, in every time zone.
C7_CustomBoundsOnEnteredDay ==
    /\ lastEvent.kind = "start" =>
           /\ LocalCivil(startDate) = lastEvent.date
           /\ LocalMs(startDate, tz) = 0
    /\ lastEvent.kind = "end" =>
           /\ LocalCivil(endDate) = lastEvent.date
           /\ LocalMs(endDate, tz) = EndOfDayMs

\* the same, east of Greenwich and on the meridian only
CustomBoundsOnEnteredDayEast ==
    tz >= 0 => C7_CustomBoundsOnEnteredDay

Inverted(r) == ~Leq(r.start, r.end)

\* C8: a custom start after the end is neither rejected, swapped nor clamped:
\* the inverted range goes unchanged through onChange, the query is issued
\* with it, and the query's answer is the empty list, not an error.
C8_InvertedRange ==
    /\ [](~effectPending => dateRange = Range(startDate, endDate))
    /\ [](lastEvent.kind = "start" =>
              startDate = Instant(DaysFromCivil(lastEvent.date.y, lastEvent.date.m,
                                                lastEvent.date.d), 0))
    /\ [][(\E d \in DashDates : handleStartDateChange(d) \/ handleEndDateChange(d))
              => /\ dateRange' = Range(startDate', endDate')
                 /\ Len(locations) > 0 =>
                        inflight' = Append(inflight, Range(startDate', endDate'))]_vars
    /\ [][\A i \in 1..Len(inflight) :
              (WeatherLoaded(i) /\ Inverted(inflight[i]))
                  => weatherReadings' = <<>> /\ error' = error]_vars

\* the query of an inverted range was answered: no error, no row, although
\* the store holds readings between the two bounds
C8_Witness ==
    /\ lastEvent.kind \in {"start", "end"}
    /\ Inverted(dateRange)
    /\ Len(locations) > 0
    /\ inflight = <<>>
    /\ ~isLoading
    /\ error = NoError
    /\ weatherReadings = <<>>
    /\ \E i \in 1..Len(storeReadings) :
           /\ Leq(dateRange.end, storeReadings[i].recorded_at)
           /\ Leq(storeReadings[i].recorded_at, dateRange.start)

\* C9: the first render applies last7days without a user action: the mode is
\* last7days and onChange receives the resolved last7days range.
C9_DefaultsToLast7Days ==
    /\ effectPending => lastEvent.kind = "none" /\ rangePreset = "last7days"
    /\ ~effectPending => lastEvent.kind # "none"
    /\ lastEvent.kind = "mount" =>
           /\ ~effectPending
           /\ rangePreset = "last7days"
           /\ dateRange = Range(startDate, endDate)
           /\ IsEndOfDayOf(endDate, lastEvent.now)
           /\ LocalDay(startDate, tz) = LocalDay(lastEvent.now, tz) - 7
           /\ LocalMs(startDate, tz) = 0

\* the picker right after its mount effect
C9_Witness ==
    /\ lastEvent.kind = "mount"
    /\ ~effectPending
    /\ rangePreset = "last7days"
    /\ dateRange = Range(startDate, endDate)
    /\ dateRange.start # dateRange.end

\* C10: the mode becomes preset p exactly when p is activated, becomes custom
\* on any edit of a bound, and leaves custom only by a preset activation.
C10_SelectionMode ==
    [][/\ \A p \in Presets : PresetClick(p) => rangePreset' = p
       /\ Mount => rangePreset' = defaultRange
       /\ \A d \in InputDates :
              (handleStartDateChange(d) \/ handleEndDateChange(d))
                  => rangePreset' = "custom"
       /\ (rangePreset' # rangePreset /\ rangePreset' \in Presets)
              => PresetClick(rangePreset')
       /\ (rangePreset = "custom" /\ rangePreset' # "custom")
              => \E p \in Presets : PresetClick(p)
       /\ Tick => rangePreset' = rangePreset]_vars

\* an edit of the end input has put the picker into custom mode
C10_Witness ==
    /\ rangePreset = "custom"
    /\ lastEvent.kind = "end"
    /\ endDate # setHours(lastEvent.now, tz, EndOfDayMs)

\* a step of one of the picker's handlers
PickerEvent ==
    \/ Mount
    \/ \E p \in Presets : PresetClick(p)
    \/ \E d \in InputDates : handleStartDateChange(d) \/ handleEndDateChange(d)

\* the objects of the new heap that were there before the handler ran
Kept == {moved'[o] : o \in DOMAIN moved'}

\* C11: every preset click and every edit hands the page a { start, end }
\* object that did not exist before; no object that was there before the
\* handler has another value after it; an edit of one bound hands over the
\* other bound's object as it is, the edited bound's Date being a new one,
\* and a preset hands over two new Dates.
C11_FreshRangeNeverMutated ==
    /\ [](dateRange = Range(heap[heap[rangeRef].start], heap[heap[rangeRef].end]))
    /\ [](~effectPending =>
              /\ heap[rangeRef] = Range(startRef, endRef)
              /\ startDate = heap[startRef]
              /\ endDate = heap[endRef])
    /\ [][/\ PickerEvent =>
              /\ rangeRef' \notin Kept
              /\ \A o \in DOMAIN moved' : heap'[moved'[o]] = heap[o]
          /\ ~PickerEvent => UNCHANGED <<heap, startRef, endRef, rangeRef>>
          /\ (Mount \/ \E p \in Presets : PresetClick(p)) =>
              (startRef' \notin Kept /\ endRef' \notin Kept)
          /\ (\E d \in InputDates : handleStartDateChange(d)) =>
              /\ startRef' \notin Kept
              /\ endRef \in DOMAIN moved' /\ moved'[endRef] = heap'[rangeRef'].end
              /\ dateRange'.end = dateRange.end
              /\ endDate' = endDate
          /\ (\E d \in InputDates : handleEndDateChange(d)) =>
              /\ endRef' \notin Kept
              /\ startRef \in DOMAIN moved' /\ moved'[startRef] = heap'[rangeRef'].start
              /\ dateRange'.start = dateRange.start
              /\ startDate' = startDate]_vars

\* the start was edited after a preset: the range's end is still the
\* preset's Date object, the end of a local day
C11_Witness ==
    /\ lastEvent.kind = "start"
    /\ DOMAIN moved = {endRef}
    /\ heap[rangeRef] = Range(startRef, endRef)
    /\ dateRange.end = heap[endRef]
    /\ LocalMs(dateRange.end, tz) = EndOfDayMs
    /\ LocalDay(dateRange.end, tz) = LocalDay(lastEvent.now, tz)
    /\ dateRange.start = setHours(ParseDateOnly(lastEvent.date), tz, 0)


-----------------------------------------------------------------------------
(* Failed fetches and the error a page shows *)

\* the fetch error a page renders: the Dashboard, WeatherData and Locations
\* render their `error` state; Analytics has no error state and renders none
RenderedError == IF page = "analytics" THEN NoError ELSE error

\* a fetch of locations or of weather readings settles with a failure
FetchFailed ==
    \/ LocationsFailed
    \/ WdLocationsFailed
    \/ \E i \in 1..MaxQueries : WeatherFailed(i)
    \/ \E i \in 1..MaxQueries : WdWeatherFailed(i)
    \/ \E i \in 1..MaxQueries : AnalyticsFailed(i)
    \/ \E i \in 1..MaxQueries : LocationsPageFailed(i)

\* C13: after a fetch of locations or of weather readings has failed, on any
\* page, the page renders an error message.
C13_FetchFailuresSurfaced == [][FetchFailed => RenderedError' # NoError]_vars

\* the failures of the Dashboard's two fetches and of WeatherData's readings
\* fetch are rendered
DashboardFailuresSurfaced ==
    [][(\/ LocationsFailed
        \/ \E i \in 1..MaxQueries : WeatherFailed(i)
        \/ \E i \in 1..MaxQueries : WdWeatherFailed(i)) => RenderedError' # NoError]_vars

\* the failure of the Locations page's fetch is rendered
LocationsPageFailuresSurfaced ==
    [][(\E i \in 1..MaxQueries : LocationsPageFailed(i)) => RenderedError' # NoError]_vars

-----------------------------------------------------------------------------
(* The add-location form *)

\* x is a number between lo and hi
InRange(x, lo, hi) == ~x.nan /\ x.num >= lo * x.den /\ x.num <= hi * x.den

\* the form holds a blank name, a latitude that is not a number of [-90, 90]
\* or a longitude that is not a number of [-180, 180]
InvalidForm(form) ==
    \/ \A k \in 1..Len(form.name) : form.name[k] = " "
    \/ ~InRange(parseFloat(form.latitude), -90, 90)
    \/ ~InRange(parseFloat(form.longitude), -180, 180)

ValidationMessages ==
    {"Location name is required", "Valid latitude is required (-90 to 90)",
     "Valid longitude is required (-180 to 180)"}

\* C14: submitting a form with a blank name, a latitude outside [-90, 90] or
\* a longitude outside [-180, 180] sends no insert, sets insertError to a
\* validation message, keeps the form and leaves the stored and the displayed
\* locations as they were; no insert awaiting its response carries such values.
C14_InvalidFormSendsNoInsert ==
    /\ [][(handleSubmit /\ InvalidForm(newLocation)) =>
             /\ requests' = requests
             /\ insertError' \in ValidationMessages
             /\ newLocation' = newLocation
             /\ storeLocations' = storeLocations
             /\ locations' = locations
             /\ ~isSubmitting']_vars
    /\ [](\A i \in 1..Len(requests) :
             requests[i].kind = "insert" =>
                 /\ requests[i].data.name # <<>>
                 /\ InRange(requests[i].data.latitude, -90, 90)
                 /\ InRange(requests[i].data.longitude, -180, 180))

\* a latitude of 91 was submitted with a name and a longitude of 90: the
\* latitude message is shown, the form kept and nothing sent
C14_Witness ==
    /\ insertError = "Valid latitude is required (-90 to 90)"
    /\ newLocation.name = <<" ", "A">>
    /\ newLocation.latitude = <<"9", "1">>
    /\ newLocation.longitude = <<"9", "0">>
    /\ \A i \in 1..Len(requests) : requests[i].kind # "insert"
    /\ storeLocations = <<1>>

-----------------------------------------------------------------------------
(* The store's foreign key *)

InStore(locs, id) == \E k \in 1..Len(locs) : locs[k] = id

-----------------------------------------------------------------------------
(* The dark mode *)

\* the value localStorage holds for a mode
ThemeOf(dark) == IF dark THEN "dark" ELSE "light"

\* C19: the mount effect takes the saved theme, or without one the system
\* preference; a toggle flips the mode and saves it; the root carries the
\* class 'dark' exactly when isDarkMode holds; after a toggle the saved
\* theme is the mode.
C19_DarkMode ==
    /\ [][AppMount =>
             isDarkMode' = (IF savedTheme # "null" THEN savedTheme = "dark"
                                                   ELSE prefersDark)]_vars
    /\ [][toggleDarkMode =>
             isDarkMode' = ~isDarkMode /\ savedTheme' = ThemeOf(isDarkMode')]_vars
    /\ [](rootDark = isDarkMode)
    /\ [](toggled => savedTheme = ThemeOf(isDarkMode))

\* a browser that prefers dark was toggled to the light mode, which is saved
C19_Witness ==
    /\ appMounted
    /\ toggled
    /\ prefersDark
    /\ savedTheme = "light"
    /\ ~isDarkMode
    /\ ~rootDark

-----------------------------------------------------------------------------
(* Overlapping weather fetches *)

\* the page has mounted and none of its requests awaits a response
AllSettled == ~effectPending /\ locReq = "done" /\ inflight = <<>>

\* the rows the store returns for the filters the page holds now
LatestRows ==
    IF page = "dashboard"
    THEN DashboardQuery(storeReadings, storeLocations, dateRange.start, dateRange.end)
    ELSE WeatherDataQuery(storeReadings, storeLocations,
                          Request(dateRange, selectedLocation))

\* C22: once every fetch has settled and none has failed, the Dashboard and
\* WeatherData show the rows, and the Dashboard the volatility, of the
\* filters selected last, whatever the order of the responses.
C22_LatestFiltersWin ==
    (page \in {"dashboard", "weatherdata"} /\ AllSettled /\ issued > 0
        /\ error = NoError) =>
        /\ weatherReadings = LatestRows
        /\ page = "dashboard" => volatility = DashboardVolatility(LatestRows)

\* C23: once every request of the Dashboard or of WeatherData has settled,
\* isLoading is false.
C23_LoadingEnds ==
    (page \in {"dashboard", "weatherdata"} /\ AllSettled) => ~isLoading

\* C24: on the Dashboard and on WeatherData isLoading is true while a
\* weather fetch is in flight.
C24_LoadingWhileInFlight ==
    (page \in {"dashboard", "weatherdata"} /\ inflight # <<>>) => isLoading

\* isLoading is true while the fetch started last is in flight
LoadingWhileLastInFlight ==
    [][\A i \in 1..MaxQueries :
          (WeatherLoaded(i) \/ WeatherFailed(i) \/ WdWeatherLoaded(i)
              \/ WdWeatherFailed(i)) => ~isLoading']_vars

-----------------------------------------------------------------------------
(* The delete button's message *)

\* C26: when handleDelete shows 'Location deleted successfully!', the
\* location it was asked to delete is not in the store.
C26_SuccessOnlyIfDeleted ==
    [][\A i \in 1..MaxQueries :
          (DeleteLoaded(i) /\ lastAlert' = "Location deleted successfully!") =>
              ~InStore(storeLocations', requests[i].id)]_vars

\* a delete that the store reports as failed shows no success message
FailedDeleteShowsFailure ==
    [][\A i \in 1..MaxQueries :
          DeleteFailed(i) => lastAlert' = "Failed to delete location. Please try again."]_vars

-----------------------------------------------------------------------------
(* The submit button *)

\* the inserts awaiting their response
InsertsInFlight == {i \in 1..Len(requests) : requests[i].kind = "insert"}

\* a submission has not run to its end: its insert, or the list refresh it
\* awaits, is pending
SubmitPending ==
    \E i \in 1..Len(requests) :
        \/ requests[i].kind = "insert"
        \/ requests[i].kind = "fetch" /\ requests[i].after = "submit"

\* C27: at most one insert is in flight; isSubmitting is true exactly while
\* a submission's insert or its list refresh is pending, so that it is reset
\* on every path; handleSubmit does not start while it is true.
C27_OneInsertInFlight ==
    /\ [](Cardinality(InsertsInFlight) <= 1)
    /\ [](isSubmitting <=> SubmitPending)
    /\ [][handleSubmit => ~isSubmitting]_vars

\* the insert has succeeded and the list refresh that handleSubmit awaits
\* is pending: isSubmitting is still true
C27_Witness ==
    /\ isSubmitting
    /\ InsertsInFlight = {}
    /\ \E i \in 1..Len(requests) : requests[i].after = "submit"
    /\ Len(storeLocations) = 2

-----------------------------------------------------------------------------
(* The date inputs' round trip *)

\* C28: after a date was entered in the start or the end input, the input
\* shows that date: formatDateForInput of the bound is the date entered.
C28_DateInputRoundTrip ==
    /\ lastEvent.kind = "start" => formatDateForInput(startDate) = lastEvent.date
    /\ lastEvent.kind = "end" => formatDateForInput(endDate) = lastEvent.date

\* the end input shows the date entered, and in UTC so does the start input
EndInputRoundTrip ==
    /\ lastEvent.kind = "end" => formatDateForInput(endDate) = lastEvent.date
    /\ (lastEvent.kind = "start" /\ tz = 0) =>
           formatDateForInput(startDate) = lastEvent.date

-----------------------------------------------------------------------------
(* WeatherData: the picker and the 'Data Range' select *)

\* the page's range is the one the picker holds and shows
RangeIsPickers == dateRange = Range(startDate, endDate)

\* C25: on WeatherData, once the picker has mounted, the range of the
\* weather query is the range the picker holds.
C25_QueryRangeIsPickers ==
    (page = "weatherdata" /\ ~effectPending) => RangeIsPickers

\* the picker's own handlers keep the page's range equal to the picker's
PickerKeepsQueryRange ==
    [][(Mount \/ PresetClick("last90days")
           \/ \E d \in DashDates : handleStartDateChange(d)) => RangeIsPickers']_vars

-----------------------------------------------------------------------------
(* The populate script's statements *)

\* the places of the log that hold statement op
Places(op) == {k \in 1..Len(scriptLog) : scriptLog[k].op = op}

RECURSIVE BatchRows(_)
\* the rows of the batches of a log, in the order of the log
BatchRows(log) ==
    IF log = <<>> THEN <<>>
    ELSE (IF log[1].op = "insertBatch" THEN log[1].rows ELSE <<>>)
             \o BatchRows(Tail(log))

IsPrefix(s, t) == Len(s) <= Len(t) /\ SubSeq(t, 1, Len(s)) = s

\* C21: the script deletes the readings before the locations; a batch is
\* inserted only after the insert of the locations has succeeded, and holds
\* only readings of the ids that insert returned; the batches are the
\* consecutive slices of at most MaxBatch rows of the script's array; after
\* an insert that reported an error no batch is inserted.
C21_ScriptOrder ==
    /\ \A k \in Places("deleteLocations") : \E j \in Places("deleteReadings") : j < k
    /\ \A k \in Places("deleteReadings") : \A j \in Places("deleteLocations") : k < j
    /\ \A k \in Places("insertBatch") :
           /\ \E j \in Places("insertLocations") :
                  /\ j < k
                  /\ scriptLog[j].ok
                  /\ \A r \in 1..Len(scriptLog[k].rows) :
                         InStore(scriptLog[j].ids, scriptLog[k].rows[r].location_id)
           /\ Len(scriptLog[k].rows) \in 1..MaxBatch
           /\ k < Len(scriptLog) => Len(scriptLog[k].rows) = MaxBatch
           /\ \A j \in Places("insertLocations") \cup Places("insertBatch") :
                  j < k => scriptLog[j].ok
    /\ IsPrefix(BatchRows(scriptLog), scriptReadings)

\* the first batch was inserted and the second, shorter one reported an
\* error, on which the script has returned
C21_Witness ==
    /\ scriptPc = "done"
    /\ Len(scriptLog) > 1
    /\ scriptLog[Len(scriptLog)].op = "insertBatch"
    /\ ~scriptLog[Len(scriptLog)].ok
    /\ scriptLog[Len(scriptLog) - 1].op = "insertBatch"
    /\ Len(storeReadings) = MaxBatch

-----------------------------------------------------------------------------
(* The tooltip's timer *)

\* at most one timer is pending; a leave or a blur cancels the pending
\* timer and hides the tooltip; the tooltip is shown by a timer only; no
\* timer is pending after the unmount
TimerProtocol ==
    /\ [](Cardinality(DOMAIN timers) <= 1)
    /\ [][(MouseLeave \/ Blur) => (DOMAIN timers' = {} /\ ~isVisible')]_vars
    /\ [][(~isVisible /\ isVisible') => \E id \in 1..MaxTimers : TimerFires(id)]_vars
    /\ [](~tipMounted => DOMAIN timers = {})

\* C29: the timer protocol, and when the pointer has entered and stayed for
\* the whole delay, so that the timer fires, the tooltip is visible.
C29_TooltipTimer ==
    /\ TimerProtocol
    /\ [][(\E id \in 1..MaxTimers : TimerFires(id)) => isVisible']_vars

====
